---- MODULE Spec2Model ----
(***************************************************************************)
(* Cerberus: the artifact detector (utils/artifact_detector.py) and the    *)
(* scan pipeline of the orchestrator (cerberus.py).                        *)
(*                                                                         *)
(* A path is the sequence of its parts (pathlib's Path.parts); str(path)   *)
(* is modelled by that sequence.  A file of the repository tree is a       *)
(* record [dir, name, xml]: its directory (absolute), its file name and,   *)
(* for a pom.xml, what ElementTree reads from it.                          *)
(***************************************************************************)
EXTENDS Naturals, Sequences, FiniteSets, TLC

VARIABLES
    repo_path,      \* ArtifactDetector.repo_path
    fs,             \* the files of the repository tree
    build_enabled,  \* config['build']['enabled']
    enabled,        \* the categories with config['scanners'][c]['enabled']
    artifacts,      \* ArtifactDetector.artifacts
    pc,             \* position in the operation under way
    build_roots,    \* build_artifacts: build_roots
    idx,            \* build_artifacts: index of the next root / Dockerfile
    build_results,  \* build_artifacts: build_results
    results,        \* Cerberus.results: category -> "absent" | "present"
    unit,           \* index in StageOrder of the next scan unit
    first_inv,      \* what the first detect() returned (as sets)
    ndetect,        \* number of detect() calls made on the tree
    tools,          \* config['scanners'][c]['tools'], per category
    report_file,    \* the file /tmp/gitleaks-report.json
    scan_out,       \* Cerberus.results with the value of every entry
    runlog,         \* the external processes run by the scan units so far
    raised,         \* whether scan has raised to its caller
    summary,        \* what _generate_summary returned last
    sbom,           \* sbom_data['artifacts'] handed to _find_conflicts
    conflicts,      \* what _find_conflicts returned
    temp_dir,       \* RepoManager.temp_dir
    cleanup_enabled, \* RepoManager.cleanup_enabled
    dirs,           \* the directories that exist
    removed         \* the directories RepoManager.cleanup has removed

vars == <<repo_path, fs, build_enabled, enabled, artifacts, pc, build_roots,
          idx, build_results, results, unit, first_inv, ndetect,
          tools, report_file, scan_out, runlog, raised, summary, sbom,
          conflicts, temp_dir, cleanup_enabled, dirs, removed>>

\* the variables of the artifact detector and of the pipeline position
pipevars == <<repo_path, fs, build_enabled, enabled, artifacts, pc,
              build_roots, idx, build_results, results, unit, first_inv,
              ndetect>>

\* the variables of the scan units, of the summary and of the conflict finder
unitvars == <<tools, report_file, scan_out, runlog, raised, summary, sbom,
              conflicts, temp_dir, cleanup_enabled, dirs, removed>>

\* the variables of the repository manager
repovars == <<temp_dir, cleanup_enabled, dirs, removed>>

\* no RepoManager is at work: scan makes one only for a repository URL
NoRepoManager ==
    /\ temp_dir = <<>>
    /\ cleanup_enabled = FALSE
    /\ dirs = {}
    /\ removed = {}

----------------------------------------------------------------------------
(* Bounds of the model *)

MaxModules == 2      \* <module> entries in one pom.xml
MaxDockerfiles == 2  \* Dockerfiles in a scanned tree
MaxJars == 1         \* jar/war files present before the build
MaxDetects == 2      \* detect() calls on one ArtifactDetector

----------------------------------------------------------------------------
(* Sequences *)

SeqUpTo(S, n) == UNION {[1..k -> S] : k \in 0..n}

Range(s) == {s[i] : i \in 1..Len(s)}

IsPrefix(s, t) == Len(s) <= Len(t) /\ \A i \in 1..Len(s) : s[i] = t[i]

NoDup(s) == \A i, j \in 1..Len(s) : s[i] = s[j] => i = j

RECURSIVE SetToSeq(_)
\* the order in which a directory walk yields the members of S
SetToSeq(S) ==
    IF S = {} THEN <<>>
    ELSE LET x == CHOOSE y \in S : TRUE IN <<x>> \o SetToSeq(S \ {x})

----------------------------------------------------------------------------
(* Paths and files *)

RECURSIVE resolve(_)
\* Path.resolve(): "." and ".." are folded away (".." at the root stays there)
resolve(p) ==
    IF p = <<>> THEN <<>>
    ELSE LET q == resolve(SubSeq(p, 1, Len(p) - 1))
             c == p[Len(p)]
         IN  IF c = "." THEN q
             ELSE IF c = ".." THEN (IF q = <<>> THEN <<>> ELSE SubSeq(q, 1, Len(q) - 1))
             ELSE Append(q, c)

parts(f) == f.dir \o <<f.name>>

NoXml == [ok |-> FALSE, ns |-> FALSE, modules |-> <<>>]

File(dir, name) == [dir |-> dir, name |-> name, xml |-> NoXml]

\* a <module> element: its text, or no text at all (module.text is None)
ModuleEl(text) == [text |-> text, none |-> FALSE]
EmptyEl == [text |-> <<>>, none |-> TRUE]

\* a readable pom.xml: ns says whether its elements are in the POM namespace
PomDoc(ns, modules) == [ok |-> TRUE, ns |-> ns, modules |-> modules]
BadXml == [ok |-> FALSE, ns |-> FALSE, modules |-> <<>>]

Pom(dir, xml) == [dir |-> dir, name |-> "pom.xml", xml |-> xml]

DockerfileNames == {"Dockerfile", "Dockerfile.dev"}
GradleNames == {"build.gradle", "build.gradle.kts"}
JarNames == {"app.jar", "x.jar"}
WarNames == {"old.war"}
EarNames == {}
K8sNames == {"deployment.yaml", "deployment.yml", "service.yaml",
             "service.yml", "ingress.yaml", "ingress.yml"}

Has(p, names) == \E i \in 1..Len(p) : p[i] \in names

----------------------------------------------------------------------------
(* ArtifactDetector: detect *)

EmptyArtifacts ==
    [dockerfiles |-> <<>>, helm_charts |-> <<>>, build_files |-> <<>>,
     jar_files |-> <<>>, war_files |-> <<>>, docker_images |-> <<>>,
     kubernetes_manifests |-> <<>>]

ArtifactKeys == DOMAIN EmptyArtifacts

SourceExclusions ==
    {"node_modules", "vendor", ".git", "target", "build", "dist", "reports"}

JavaExclusions == {"node_modules", "vendor", ".git", "reports"}

find_dockerfiles(a, tree) ==
    LET found == {f \in tree : /\ f.name \in DockerfileNames
                               /\ ~Has(parts(f), SourceExclusions)}
    IN  [a EXCEPT !.dockerfiles = @ \o SetToSeq({parts(f) : f \in found})]

find_helm_charts(a, tree) ==
    LET found == {f \in tree : f.name = "Chart.yaml"}
    IN  [a EXCEPT !.helm_charts = @ \o SetToSeq({f.dir : f \in found})]

BuildFile(type, f) == [type |-> type, path |-> parts(f), dir |-> f.dir]

find_build_files(a, tree) ==
    LET poms == {f \in tree : /\ f.name = "pom.xml"
                              /\ ~Has(parts(f), SourceExclusions)}
        gradles == {f \in tree : /\ f.name \in GradleNames
                                 /\ ~Has(parts(f), SourceExclusions)}
    IN  [a EXCEPT !.build_files =
            @ \o SetToSeq({BuildFile("maven", f) : f \in poms})
              \o SetToSeq({BuildFile("gradle", f) : f \in gradles})]

\* a re-scan that starts from empty lists instead of appending
find_java_artifacts_reset(a, tree) ==
    LET keep(names) == {f \in tree : /\ f.name \in names
                                     /\ ~Has(parts(f), JavaExclusions)}
        wars == {f \in tree : /\ f.name \in WarNames
                              /\ (Has(parts(f), {"target"}) \/ Has(parts(f), {"build"}))}
    IN  [a EXCEPT
            !.jar_files = SetToSeq({parts(f) : f \in keep(JarNames)})
                          \o SetToSeq({parts(f) : f \in keep(WarNames)})
                          \o SetToSeq({parts(f) : f \in keep(EarNames)}),
            !.war_files = SetToSeq({parts(f) : f \in wars})]

find_java_artifacts(a, tree) ==
    LET keep(names) == {f \in tree : /\ f.name \in names
                                     /\ ~Has(parts(f), JavaExclusions)}
        wars == {f \in tree : /\ f.name \in WarNames
                              /\ (Has(parts(f), {"target"}) \/ Has(parts(f), {"build"}))}
    IN  [a EXCEPT
            !.jar_files = @ \o SetToSeq({parts(f) : f \in keep(JarNames)})
                            \o SetToSeq({parts(f) : f \in keep(WarNames)})
                            \o SetToSeq({parts(f) : f \in keep(EarNames)}),
            !.war_files = @ \o SetToSeq({parts(f) : f \in wars})]

RECURSIVE AppendNew(_, _)
\* append the members of s that the list does not hold yet, one by one
AppendNew(list, s) ==
    IF s = <<>> THEN list
    ELSE AppendNew(IF Head(s) \in Range(list) THEN list ELSE Append(list, Head(s)),
                   Tail(s))

\* a guard that drops an entry already held instead of skipping it
find_kubernetes_manifests_toggle(a, tree) ==
    LET found == SetToSeq({parts(f) : f \in {g \in tree : g.name \in K8sNames}})
        held == a.kubernetes_manifests
    IN  [a EXCEPT !.kubernetes_manifests =
            SelectSeq(held, LAMBDA m : m \notin Range(found))
            \o SelectSeq(found, LAMBDA m : m \notin Range(held))]

find_kubernetes_manifests(a, tree) ==
    LET found == SetToSeq({parts(f) : f \in {g \in tree : g.name \in K8sNames}})
    IN  [a EXCEPT !.kubernetes_manifests = AppendNew(@, found)]

detect(a, tree) ==
    find_kubernetes_manifests(
        find_java_artifacts(
            find_build_files(
                find_helm_charts(
                    find_dockerfiles(a, tree), tree), tree), tree), tree)

----------------------------------------------------------------------------
(* ArtifactDetector: _filter_build_roots *)

\* root.findall: the <module> elements found with / without the namespace map
findall(xml, withNs) == IF xml.ns = withNs THEN xml.modules ELSE <<>>

\* modules looked up from the repository root instead of the declaring pom
module_base_repo(b, repo) == resolve(repo)

\* current_dir: where a declared module is looked up
module_base(b, repo) == resolve(b.dir)

RECURSIVE add_modules(_, _, _)
\* the loop over modules: stops at the first element whose text is None
\* (module.text.strip() raises), keeping what was added before it
add_modules(children, base, modules) ==
    IF modules = <<>> THEN children
    ELSE IF Head(modules).none THEN children
    ELSE add_modules(children \cup {resolve(base \o Head(modules).text)},
                     base, Tail(modules))

pom_at(tree, b) == CHOOSE f \in tree : parts(f) = b.path

RECURSIVE child_dirs_of(_, _, _, _)
child_dirs_of(build_files, tree, repo, children) ==
    IF build_files = <<>> THEN children
    ELSE LET b == Head(build_files)
             xml == pom_at(tree, b).xml
             first == findall(xml, TRUE)
             modules == IF first = <<>> THEN findall(xml, FALSE) ELSE first
             next == IF b.type = "maven" /\ xml.ok
                     THEN add_modules(children, module_base(b, repo), modules)
                     ELSE children
         IN  child_dirs_of(Tail(build_files), tree, repo, next)

filter_build_roots(build_files, tree, repo) ==
    LET child_dirs == child_dirs_of(build_files, tree, repo, {})
    IN  SelectSeq(build_files, LAMBDA b : resolve(b.dir) \notin child_dirs)

----------------------------------------------------------------------------
(* Python values: what the scanners return and what json.loads parses.     *)
(* A value is a record with a field shape; a dict holds a function from    *)
(* its keys, a list a sequence of values.                                  *)

None == [shape |-> "none"]
Str(s) == [shape |-> "str", s |-> s]
List(q) == [shape |-> "list", items |-> q]
Dict(d) == [shape |-> "dict", d |-> d]

\* bool(v)
truthy(v) ==
    CASE v.shape = "none" -> FALSE
      [] v.shape = "str" -> v.s # ""
      [] v.shape = "list" -> v.items # <<>>
      [] v.shape = "dict" -> DOMAIN v.d # {}

\* len(v); a caller asks only where Python has a length
len(v) ==
    CASE v.shape = "list" -> Len(v.items)
      [] v.shape = "dict" -> Cardinality(DOMAIN v.d)
      [] v.shape = "str" -> IF v.s = "" THEN 0 ELSE 1

\* whether v.get(...) exists: only a dict has the method
has_get(v) == v.shape = "dict"

\* v.get(k, default) of a dict v
get(v, k, default) == IF k \in DOMAIN v.d THEN v.d[k] ELSE default

\* k in v, of a dict v
has_key(v, k) == k \in DOMAIN v.d

\* v with v[k] = x
put(v, k, x) ==
    Dict([j \in DOMAIN v.d \cup {k} |-> IF j = k THEN x ELSE v.d[j]])

\* the tools a scanner runs when config['scanners'][c] has no 'tools' key
DefaultTools ==
    [secrets |-> {"gitleaks"},
     sast |-> {"semgrep", "spotbugs"},
     dependencies |-> {"owasp-dependency-check", "trivy"},
     iac |-> {"trivy", "checkov"},
     containers |-> {"trivy", "grype"},
     helm |-> {"kubescan", "kubeaudit", "helm-lint", "trivy"},
     linting |-> {"hadolint"},
     consistency |-> {}]

\* /tmp/gitleaks-report.json does not exist
NoFile == [shape |-> "nofile"]

----------------------------------------------------------------------------
(* State shared by the specifications *)

Categories == {"secrets", "sast", "dependencies", "iac",
               "containers", "helm", "linting", "consistency"}

EmptyBuildResults == [maven |-> <<>>, gradle |-> <<>>, docker |-> <<>>]

AsSets(a) == [k \in ArtifactKeys |-> Range(a[k])]

\* the state after ArtifactDetector(repo, config) and Cerberus(config)
InitOn(repo, tree, build, cats) ==
    /\ repo_path = repo
    /\ fs = tree
    /\ build_enabled = build
    /\ enabled = cats
    /\ artifacts = EmptyArtifacts
    /\ pc = "start"
    /\ build_roots = <<>>
    /\ idx = 1
    /\ build_results = EmptyBuildResults
    /\ results = [c \in Categories |-> "absent"]
    /\ unit = 1
    /\ first_inv = AsSets(EmptyArtifacts)
    /\ ndetect = 0
    /\ tools = DefaultTools
    /\ report_file = NoFile
    /\ scan_out = Dict(<<>>)
    /\ runlog = {}
    /\ raised = FALSE
    /\ summary = None
    /\ sbom = <<>>
    /\ conflicts = <<>>
    /\ NoRepoManager

\* detector.detect(), the first call on a new ArtifactDetector
Detect ==
    /\ pc = "start"
    /\ artifacts' = detect(artifacts, fs)
    /\ first_inv' = AsSets(artifacts')
    /\ ndetect' = 1
    /\ pc' = "detected"
    /\ UNCHANGED <<repo_path, fs, build_enabled, enabled, build_roots, idx,
                   build_results, results, unit>>
    /\ UNCHANGED unitvars

----------------------------------------------------------------------------
(* SpecRoots: _filter_build_roots applied to the descriptors detect finds *)

Repo == <<"srv", "proj">>

RootEls == {ModuleEl(<<"a">>), ModuleEl(<<"b">>), EmptyEl}
SubEls == {ModuleEl(<<"c">>), ModuleEl(<<"..", "a">>), EmptyEl}

Docs(els) ==
    {BadXml} \cup {PomDoc(ns, m) : ns \in BOOLEAN, m \in SeqUpTo(els, MaxModules)}

Opt(S) == {{}} \cup {{x} : x \in S}

RootsTrees ==
    {r \cup a \cup b \cup c \cup ga \cup gg :
        r \in Opt({Pom(Repo, d) : d \in Docs(RootEls)}),
        a \in Opt({Pom(Repo \o <<"a">>, PomDoc(TRUE, <<>>))}),
        b \in Opt({Pom(Repo \o <<"b">>, d) : d \in Docs(SubEls)}),
        c \in Opt({Pom(Repo \o <<"b", "c">>, PomDoc(FALSE, <<>>))}),
        ga \in Opt({File(Repo \o <<"a">>, "build.gradle")}),
        gg \in Opt({File(Repo \o <<"g">>, "build.gradle.kts")})}

InitRoots == \E tree \in RootsTrees : InitOn(Repo, tree, TRUE, Categories)

\* build_roots = self._filter_build_roots(self.artifacts['build_files'])
FilterRoots ==
    /\ pc = "detected"
    /\ build_roots' = filter_build_roots(artifacts.build_files, fs, repo_path)
    /\ pc' = "filtered"
    /\ UNCHANGED <<repo_path, fs, build_enabled, enabled, artifacts, idx,
                   build_results, results, unit, first_inv, ndetect>>
    /\ UNCHANGED unitvars

NextRoots == Detect \/ FilterRoots

SpecRoots == InitRoots /\ [][NextRoots]_vars

----------------------------------------------------------------------------
(* Claims about _filter_build_roots *)

\* a pom.xml all of whose module declarations can be read
Readable(xml) == xml.ok /\ \A i \in 1..Len(xml.modules) : ~xml.modules[i].none

\* the resolved module paths a readable Maven descriptor declares
Declared(b) ==
    LET xml == pom_at(fs, b).xml
    IN  IF b.type = "maven" /\ Readable(xml)
        THEN {resolve(resolve(b.dir) \o xml.modules[i].text) : i \in 1..Len(xml.modules)}
        ELSE {}

Descriptor(type, rel, name) ==
    [type |-> type, path |-> Repo \o rel \o <<name>>, dir |-> Repo \o rel]

\* the tree of the scenario: root declares [a, b], a declares nothing, b declares [c]
ScenarioTree ==
    {Pom(Repo, PomDoc(TRUE, <<ModuleEl(<<"a">>), ModuleEl(<<"b">>)>>)),
     Pom(Repo \o <<"a">>, PomDoc(TRUE, <<>>)),
     Pom(Repo \o <<"b">>, PomDoc(TRUE, <<ModuleEl(<<"c">>)>>)),
     Pom(Repo \o <<"b", "c">>, PomDoc(FALSE, <<>>))}

\* C1: the roots _filter_build_roots returns and the descriptors it leaves out
\* partition its input, no root's resolved directory is a resolved module path
\* declared by another descriptor, and in the scenario tree only the root
\* pom.xml is a root.
InvC1 ==
    pc = "filtered" =>
        LET input == Range(artifacts.build_files)
            roots == Range(build_roots)
            rest == {b \in input : ~\E i \in 1..Len(build_roots) : build_roots[i] = b}
        IN  /\ roots \cup rest = input
            /\ roots \cap rest = {}
            /\ Len(build_roots) = Cardinality(roots)
            /\ \A r \in roots : \A b \in input \ {r} : resolve(r.dir) \notin Declared(b)
            /\ fs = ScenarioTree => build_roots = <<Descriptor("maven", <<>>, "pom.xml")>>

WitC1 ==
    /\ pc = "filtered"
    /\ fs = ScenarioTree
    /\ Len(artifacts.build_files) = 4
    /\ Len(build_roots) = 1

\* C2: a Maven descriptor whose module declarations cannot be read adds no
\* child edge and stays a root: the only descriptors left out of the roots are
\* those a readable descriptor declares.
InvC2 ==
    pc = "filtered" =>
        \A d \in Range(artifacts.build_files) :
            (\A b \in Range(artifacts.build_files) : resolve(d.dir) \notin Declared(b))
                => d \in Range(build_roots)

\* C3: every Gradle descriptor of the inventory is in the root set.
InvC3 ==
    pc = "filtered" =>
        \A b \in Range(artifacts.build_files) :
            b.type = "gradle" => b \in Range(build_roots)

----------------------------------------------------------------------------
(* ArtifactDetector: build_artifacts *)

\* what the process started by subprocess.run did:
\*   exit0, exitN   it ran and returned 0 / a non-zero code
\*   timeout        it ran past timeout=600 (TimeoutExpired)
\*   absent         its executable does not exist (FileNotFoundError)
\*   raise          an exception before subprocess.run, outside the try of
\*                  _build_maven / _build_gradle (a configured command that
\*                  is not a string, a gradlew probe that raises)
RootOutcomes == {"exit0", "exitN", "timeout", "absent", "raise"}
DockerOutcomes == {"exit0", "exitN", "timeout", "absent"}

\* _build_maven / _build_gradle: (success, log)
build_tool(outcome) ==
    CASE outcome = "exit0" -> [success |-> TRUE, log |-> "output"]
      [] outcome = "exitN" -> [success |-> FALSE, log |-> "output"]
      [] outcome = "timeout" -> [success |-> FALSE, log |-> "Timed out"]
      [] outcome = "absent" -> [success |-> FALSE, log |-> "No such file or directory"]

\* the body of the loop over build_roots: the entry appended for one root;
\* proc records what the process did
root_result(b, outcome) ==
    IF outcome = "raise"
    THEN [type |-> b.type, dir |-> b.dir, status |-> "error",
          log |-> "exception", proc |-> outcome]
    ELSE [type |-> b.type, dir |-> b.dir,
          status |-> IF build_tool(outcome).success THEN "success" ELSE "failed",
          log |-> build_tool(outcome).log, proc |-> outcome]

\* a loop that gives up on the remaining roots once a build raised
next_root_abort(i, n, status) == IF status = "error" THEN n + 1 ELSE i + 1

\* the loop over build_roots goes on to the next root whatever the outcome
next_root(i, n, status) == i + 1

\* the build output directory of a descriptor
out_dir(b) ==
    IF b.type = "maven" THEN b.dir \o <<"target">> ELSE b.dir \o <<"build", "libs">>

IsUnder(dir, top) == Len(top) <= Len(dir) /\ SubSeq(dir, 1, Len(top)) = top

\* the tree after `mvn clean package` / `gradle clean build` in b.dir: a run
\* that starts cleans the output directory, a run that succeeds leaves app.jar
build_effect(tree, b, outcome) ==
    LET top == IF b.type = "maven" THEN b.dir \o <<"target">> ELSE b.dir \o <<"build">>
        cleaned == {f \in tree : ~IsUnder(f.dir, top)}
    IN  CASE outcome = "exit0" -> cleaned \cup {File(out_dir(b), "app.jar")}
          [] outcome = "exitN" -> cleaned
          [] OTHER -> tree

\* the characters of the directory names of the model
NameChars(name) ==
    CASE name = "proj" -> <<"p", "r", "o", "j">>
      [] name = "svc" -> <<"s", "v", "c">>
      [] name = "My.Svc" -> <<"M", "y", ".", "S", "v", "c">>
      [] OTHER -> <<name>>

isalnum(c) == c \notin {".", "-", "_", " ", "/"}

lower(c) == CASE c = "M" -> "m" [] c = "S" -> "s" [] OTHER -> c

\* image_tag of a Dockerfile path, as the sequence of its pieces
image_tag(dockerfile, repo) ==
    LET build_dir == SubSeq(dockerfile, 1, Len(dockerfile) - 1)
        name == IF build_dir = <<>> THEN "" ELSE build_dir[Len(build_dir)]
        folder_name == IF name = "." THEN repo[Len(repo)] ELSE name
        chars == NameChars(folder_name)
        tag_name == [i \in 1..Len(chars) |->
                        IF isalnum(chars[i]) THEN lower(chars[i]) ELSE "-"]
    IN  <<"cerberus-scan/">> \o tag_name \o <<":latest">>

\* the body of the loop of _build_docker_images: the entry appended for one
\* Dockerfile; every exception, a timeout included, is an error
docker_result(dockerfile, repo, outcome) ==
    [file |-> dockerfile, image |-> image_tag(dockerfile, repo),
     status |-> CASE outcome = "exit0" -> "success"
                  [] outcome = "exitN" -> "failed"
                  [] OTHER -> "error",
     log |-> CASE outcome \in {"exit0", "exitN"} -> "output"
               [] outcome = "timeout" -> "timed out after 600 seconds"
               [] OTHER -> "No such file or directory",
     proc |-> outcome]

----------------------------------------------------------------------------
(* Cerberus: scan *)

\* an order that runs the linting unit with the source scanners
StageOrderMixed == <<"secrets", "sast", "dependencies", "linting",
                     "containers", "helm", "iac", "consistency">>

\* the order in which _run_source_scanners, then _run_artifact_scanners run
\* their units
StageOrder == <<"secrets", "sast", "dependencies", "iac",
                "containers", "helm", "linting", "consistency">>

NSource == 4

\* a rule that starts the container scanner whenever a Dockerfile was found
runs_on_dockerfiles(c, cats, a) ==
    /\ c \in cats
    /\ c = "containers" => a.dockerfiles # <<>>
    /\ c = "helm" => a.helm_charts # <<>>

\* whether the unit of category c runs
runs(c, cats, a) ==
    /\ c \in cats
    /\ c = "containers" => a.docker_images # <<>>
    /\ c = "helm" => a.helm_charts # <<>>

\* Step 3 of scan when it is taken: build_artifacts up to the loop
BuildStart ==
    /\ pc = "detected"
    /\ build_enabled /\ artifacts.build_files # <<>>
    /\ build_roots' = filter_build_roots(artifacts.build_files, fs, repo_path)
    /\ idx' = 1
    /\ pc' = "build_roots"
    /\ UNCHANGED <<repo_path, fs, build_enabled, enabled, artifacts,
                   build_results, results, unit, first_inv, ndetect>>
    /\ UNCHANGED unitvars

\* Step 3 of scan when building is disabled or there is no build file
SkipBuild ==
    /\ pc = "detected"
    /\ ~(build_enabled /\ artifacts.build_files # <<>>)
    /\ pc' = "source"
    /\ UNCHANGED <<repo_path, fs, build_enabled, enabled, artifacts, build_roots,
                   idx, build_results, results, unit, first_inv, ndetect>>
    /\ UNCHANGED unitvars

\* one iteration of the loop over build_roots
BuildRoot ==
    /\ pc = "build_roots"
    /\ idx <= Len(build_roots)
    /\ \E outcome \in RootOutcomes :
        LET b == build_roots[idx]
            res == root_result(b, outcome)
        IN  /\ build_results' = [build_results EXCEPT ![b.type] = Append(@, res)]
            /\ fs' = build_effect(fs, b, outcome)
            /\ idx' = next_root(idx, Len(build_roots), res.status)
    /\ UNCHANGED <<repo_path, build_enabled, enabled, artifacts, pc, build_roots,
                   results, unit, first_inv, ndetect>>
    /\ UNCHANGED unitvars

\* the loop over build_roots is over
BuildRootsDone ==
    /\ pc = "build_roots"
    /\ idx > Len(build_roots)
    /\ idx' = 1
    /\ pc' = "docker"
    /\ UNCHANGED <<repo_path, fs, build_enabled, enabled, artifacts, build_roots,
                   build_results, results, unit, first_inv, ndetect>>
    /\ UNCHANGED unitvars

\* one iteration of the loop of _build_docker_images
BuildDocker ==
    /\ pc = "docker"
    /\ idx <= Len(artifacts.dockerfiles)
    /\ \E outcome \in DockerOutcomes :
        LET res == docker_result(artifacts.dockerfiles[idx], repo_path, outcome)
        IN  /\ build_results' = [build_results EXCEPT !.docker = Append(@, res)]
            /\ artifacts' = IF res.status = "success"
                            THEN [artifacts EXCEPT !.docker_images = Append(@, res.image)]
                            ELSE artifacts
    /\ idx' = idx + 1
    /\ UNCHANGED <<repo_path, fs, build_enabled, enabled, pc, build_roots,
                   results, unit, first_inv, ndetect>>
    /\ UNCHANGED unitvars

\* the end of build_artifacts: self._find_java_artifacts() once more
Rescan ==
    /\ pc = "docker"
    /\ idx > Len(artifacts.dockerfiles)
    /\ artifacts' = find_java_artifacts(artifacts, fs)
    /\ pc' = "source"
    /\ UNCHANGED <<repo_path, fs, build_enabled, enabled, build_roots, idx,
                   build_results, results, unit, first_inv, ndetect>>
    /\ UNCHANGED unitvars

\* one unit of _run_source_scanners
SourceUnit ==
    /\ pc = "source"
    /\ unit <= NSource
    /\ results' = IF runs(StageOrder[unit], enabled, artifacts)
                  THEN [results EXCEPT ![StageOrder[unit]] = "present"]
                  ELSE results
    /\ unit' = unit + 1
    /\ pc' = IF unit = NSource THEN "artifact" ELSE pc
    /\ UNCHANGED <<repo_path, fs, build_enabled, enabled, artifacts, build_roots,
                   idx, build_results, first_inv, ndetect>>
    /\ UNCHANGED unitvars

\* one unit of _run_artifact_scanners
ArtifactUnit ==
    /\ pc = "artifact"
    /\ unit <= Len(StageOrder)
    /\ results' = IF runs(StageOrder[unit], enabled, artifacts)
                  THEN [results EXCEPT ![StageOrder[unit]] = "present"]
                  ELSE results
    /\ unit' = unit + 1
    /\ pc' = IF unit = Len(StageOrder) THEN "report" ELSE pc
    /\ UNCHANGED <<repo_path, fs, build_enabled, enabled, artifacts, build_roots,
                   idx, build_results, first_inv, ndetect>>
    /\ UNCHANGED unitvars

\* what _generate_reports hands to report_gen.generate as results:
\* self.results, which holds the categories whose scanner ran
handed(res) ==
    Dict([c \in {k \in DOMAIN res : res[k] = "present"} |-> Str("present")])

\* Step 6 of scan, and its return
GenerateReports ==
    /\ pc = "report"
    /\ scan_out' = handed(results)
    /\ pc' = "done"
    /\ UNCHANGED <<repo_path, fs, build_enabled, enabled, artifacts, build_roots,
                   idx, build_results, results, unit, first_inv, ndetect>>
    /\ UNCHANGED <<tools, report_file, runlog, raised, summary, sbom, conflicts>>
    /\ UNCHANGED repovars

\* the build descriptors (and Helm chart) of the scanned trees
Layouts ==
    {{},
     {Pom(Repo, PomDoc(TRUE, <<>>)), File(Repo \o <<"chart">>, "Chart.yaml")},
     {Pom(Repo, PomDoc(TRUE, <<ModuleEl(<<"a">>)>>)), Pom(Repo \o <<"a">>, PomDoc(TRUE, <<>>))},
     {Pom(Repo, BadXml), Pom(Repo \o <<"a">>, PomDoc(FALSE, <<>>))}}

DockerUniverse ==
    {File(Repo, "Dockerfile"), File(Repo \o <<"My.Svc">>, "Dockerfile"),
     File(Repo \o <<"My.Svc">>, "Dockerfile.dev")}

JarUniverse ==
    {File(Repo \o <<"lib">>, "x.jar"), File(Repo \o <<"target">>, "old.war")}

AtMost(S, n) == {T \in SUBSET S : Cardinality(T) <= n}

ScanTrees ==
    {p \cup g \cup d \cup j :
        p \in Layouts,
        g \in Opt({File(Repo \o <<"g">>, "build.gradle")}),
        d \in AtMost(DockerUniverse, MaxDockerfiles),
        j \in AtMost(JarUniverse, MaxJars)}

ScanConfigs == {Categories, {"secrets", "iac", "helm", "consistency"}}

Init ==
    \E tree \in ScanTrees, build \in BOOLEAN, cats \in ScanConfigs :
        InitOn(Repo, tree, build, cats)

Next ==
    \/ Detect
    \/ BuildStart
    \/ SkipBuild
    \/ BuildRoot
    \/ BuildRootsDone
    \/ BuildDocker
    \/ Rescan
    \/ SourceUnit
    \/ ArtifactUnit
    \/ GenerateReports

Spec == Init /\ [][Next]_vars

----------------------------------------------------------------------------
(* SpecDetect: detect() called again on an unmodified tree *)

RepoPaths == {Repo, <<"build", "proj">>}

DetectFiles(repo) ==
    {File(repo, "Dockerfile"), File(repo \o <<"vendor">>, "Dockerfile.dev"),
     Pom(repo, PomDoc(TRUE, <<>>)), File(repo \o <<"g">>, "build.gradle"),
     File(repo \o <<"lib">>, "x.jar"), File(repo \o <<"target">>, "old.war"),
     File(repo \o <<"chart">>, "Chart.yaml"),
     File(repo \o <<"k8s">>, "deployment.yaml"), File(repo \o <<"k8s">>, "service.yml")}

InitDetect ==
    \E repo \in RepoPaths :
        \E tree \in SUBSET DetectFiles(repo) : InitOn(repo, tree, FALSE, Categories)

\* detect() once more on the same ArtifactDetector
DetectSame ==
    /\ pc = "detected"
    /\ ndetect < MaxDetects
    /\ artifacts' = detect(artifacts, fs)
    /\ ndetect' = ndetect + 1
    /\ UNCHANGED <<repo_path, fs, build_enabled, enabled, pc, build_roots, idx,
                   build_results, results, unit, first_inv>>
    /\ UNCHANGED unitvars

\* detect() on a new ArtifactDetector for the same repository
DetectFresh ==
    /\ pc = "detected"
    /\ ndetect < MaxDetects
    /\ artifacts' = detect(EmptyArtifacts, fs)
    /\ ndetect' = ndetect + 1
    /\ UNCHANGED <<repo_path, fs, build_enabled, enabled, pc, build_roots, idx,
                   build_results, results, unit, first_inv>>
    /\ UNCHANGED unitvars

NextDetect == Detect \/ DetectSame \/ DetectFresh

SpecDetect == InitDetect /\ [][NextDetect]_vars

----------------------------------------------------------------------------
(* Claims about build_artifacts and scan *)

BuildEntries == build_results.maven \o build_results.gradle

OfType(s, type) == SelectSeq(s, LAMBDA x : x.type = type)

Key(s) == [i \in 1..Len(s) |-> <<s[i].type, s[i].dir>>]

AfterRoots == pc \in {"docker", "source", "artifact", "report", "done"}

AfterBuild == pc \in {"source", "artifact", "report", "done"}

\* C4: the Maven/Gradle builds build_artifacts runs are those of the roots, in
\* order, one result entry per root under the root's kind and none for a
\* descriptor that a readable descriptor declares as a module; no outcome of a
\* build stops the builds of the roots after it.
InvC4 ==
    /\ pc = "build_roots" => Len(BuildEntries) = idx - 1
    /\ AfterRoots =>
        /\ Key(build_results.maven) = Key(OfType(build_roots, "maven"))
        /\ Key(build_results.gradle) = Key(OfType(build_roots, "gradle"))
        /\ \A e \in Range(BuildEntries) :
            /\ e.status \in {"success", "failed", "error"}
            /\ \A b \in Range(artifacts.build_files) :
                b.dir # e.dir => resolve(e.dir) \notin Declared(b)

WitC4 ==
    /\ AfterRoots
    /\ Len(build_roots) = 2
    /\ Len(artifacts.build_files) = 3
    /\ Len(build_results.maven) = 1 /\ build_results.maven[1].status = "error"
    /\ Len(build_results.gradle) = 1 /\ build_results.gradle[1].status = "success"

AllBuildEntries == Range(BuildEntries) \cup Range(build_results.docker)

\* C5: every build step ends success, failed or error; error exactly when the
\* build could not be invoked (executable absent, unexpected exception) and
\* failed exactly when the process ran and exited non-zero (a timeout is left
\* open).
InvC5 ==
    \A e \in AllBuildEntries :
        /\ e.status \in {"success", "failed", "error"}
        /\ e.proc # "timeout" =>
            /\ e.status = "error" <=> e.proc \in {"absent", "raise"}
            /\ e.status = "failed" <=> e.proc = "exitN"

\* C6: with building enabled, a scan attempts one image build per Dockerfile
\* it discovered, whatever build descriptors the repository has.
InvC6 ==
    (AfterBuild /\ build_enabled) =>
        /\ Len(build_results.docker) = Len(artifacts.dockerfiles)
        /\ \A i \in 1..Len(build_results.docker) :
            build_results.docker[i].file = artifacts.dockerfiles[i]

\* C7: no step of a scan, the steps of build_artifacts included, removes or
\* moves an entry of an inventory list: every list only grows at its end.
PropC7 ==
    [][\A k \in ArtifactKeys : IsPrefix(artifacts[k], artifacts'[k])]_vars

\* a build removed a file that the inventory still lists after the re-scan
WitC7 ==
    /\ AfterBuild
    /\ Len(BuildEntries) > 0
    /\ \E p \in Range(artifacts.jar_files) : p \notin {parts(f) : f \in fs}
    /\ \E p \in Range(artifacts.jar_files) : p[Len(p)] = "app.jar"

\* C8: no inventory list holds an entry twice, in any state of a scan.
InvC8 == \A k \in ArtifactKeys : NoDup(artifacts[k])

\* C9: a second detect() over the unmodified tree, on the same detector or on
\* a new one, returns for every artifact type the set of entries the first
\* detect() returned.
InvC9 == ndetect >= 2 => AsSets(artifacts) = first_inv

\* a second detect() on the same detector: every entry is listed twice
WitC9 ==
    /\ ndetect = 2
    /\ Len(artifacts.kubernetes_manifests) = 2
    /\ Len(artifacts.jar_files) = 4
    /\ Len(artifacts.dockerfiles) = 2
    /\ Len(artifacts.build_files) = 4

ArtifactStage == {"containers", "helm", "linting", "consistency"}
SourceStage == {"secrets", "sast", "dependencies", "iac"}

\* the build stage is over: it was skipped, or every root and every Dockerfile
\* has its result and the re-scan was made
BuildResolved ==
    /\ pc \notin {"start", "detected", "build_roots", "docker"}
    /\ Len(BuildEntries) = Len(build_roots)
    /\ build_roots # <<>> => Len(build_results.docker) = Len(artifacts.dockerfiles)
    /\ \A e \in AllBuildEntries : e.status \in {"success", "failed", "error"}
    /\ \A f \in fs : (f.name \in JarNames /\ ~Has(parts(f), JavaExclusions))
                        => parts(f) \in Range(artifacts.jar_files)

\* C10: a unit of the artifact stage has run only if the build stage is over
\* (every build ended, the inventory was scanned again) and every enabled unit
\* of the source stage has run.
InvC10 ==
    \A c \in ArtifactStage :
        (results[c] = "present" \/ pc = "artifact") =>
            /\ BuildResolved
            /\ \A s \in SourceStage \cap enabled : results[s] = "present"

WitC10 ==
    /\ results["linting"] = "present"
    /\ results["containers"] = "present"
    /\ Len(build_results.maven) = 2
    /\ build_results.maven[1].status = "failed"
    /\ \E p \in Range(artifacts.jar_files) : p[Len(p)] = "app.jar"

----------------------------------------------------------------------------
(* The scan units: what each tool wrapper returns for what its process did *)

\* what subprocess.run did: the process exited with code 0, 1 or another
\* code, outlived the timeout (TimeoutExpired), had no executable
\* (FileNotFoundError), or subprocess.run raised another exception
Exits == {"exit0", "exit1", "exit2"}
Procs == Exits \cup {"timeout", "absent", "raise"}

\* a text: stdout of a process, or the content of a file; json.loads of it
\* gives v when ok, and raises JSONDecodeError otherwise
NoText == [shape |-> "text", empty |-> TRUE, ok |-> FALSE, v |-> None]
Garbage == [shape |-> "text", empty |-> FALSE, ok |-> FALSE, v |-> None]
Json(v) == [shape |-> "text", empty |-> FALSE, ok |-> TRUE, v |-> v]

\* a path or an image tag held as a Python str
Path(p) == [shape |-> "path", p |-> p]

\* {'error': msg, 'status': status}
Err(msg, status) == Dict([error |-> Str(msg), status |-> Str(status)])

\* {'findings': [], 'status': 'completed'}
CompletedEmpty == Dict([findings |-> List(<<>>), status |-> Str("completed")])

\* what one run of a process did: its end, its stdout, and the text it wrote
\* to its report file (NoFile when it wrote none)
Run(proc, out, written) == [proc |-> proc, out |-> out, written |-> written]

\* SecretsScanner._run_gitleaks: the report file after the process ran
gitleaks_file(o, file) ==
    IF o.proc \in Exits /\ o.written # NoFile THEN o.written ELSE file

\* SecretsScanner._run_gitleaks
run_gitleaks(o, file) ==
    CASE o.proc = "timeout" -> Err("Gitleaks scan timed out", "timeout")
      [] o.proc = "absent" -> Err("Gitleaks not installed", "not_installed")
      [] o.proc = "raise" -> Err("exception", "error")
      [] OTHER ->
            LET f == gitleaks_file(o, file)
            IN  IF f = NoFile \/ ~f.ok THEN List(<<>>)
                ELSE IF truthy(f.v) THEN f.v ELSE List(<<>>)

\* the shape shared by the wrappers that parse stdout as JSON: the exit codes
\* in accepted lead to json.loads(stdout), with the completed-and-empty dict
\* when it raises; any other exit code is 'failed'
json_tool(o, accepted, timed_out, not_installed) ==
    CASE o.proc = "timeout" -> Err(timed_out, "timeout")
      [] o.proc = "absent" -> Err(not_installed, "not_installed")
      [] o.proc = "raise" -> Err("exception", "error")
      [] o.proc \in accepted -> IF o.out.ok THEN o.out.v ELSE CompletedEmpty
      [] OTHER -> Err("stderr", "failed")

\* DependencyScanner._run_trivy_fs
run_trivy_fs(o) ==
    json_tool(o, {"exit0"}, "Trivy scan timed out", "Trivy not installed")

\* IaCScanner._run_trivy_config
run_trivy_config(o) ==
    json_tool(o, {"exit0"}, "Trivy config scan timed out", "Trivy not installed")

\* IaCScanner._run_checkov
run_checkov(o) ==
    json_tool(o, {"exit0", "exit1"}, "Checkov scan timed out",
              "Checkov not installed")

\* SASTScanner._run_semgrep
run_semgrep(o) ==
    json_tool(o, {"exit0", "exit1"}, "Semgrep scan timed out",
              "Semgrep not installed")

\* SASTScanner._run_spotbugs: what one iteration appends to all_findings
spotbugs_entry(jar, o) ==
    CASE o.proc = "exit0" ->
            Dict([jar |-> Path(jar), status |-> Str("completed"),
                  output |-> Str("stdout")])
      [] o.proc \in Exits \ {"exit0"} ->
            Dict([jar |-> Path(jar), error |-> Str("stderr"),
                  status |-> Str("failed")])
      [] o.proc = "timeout" ->
            Dict([jar |-> Path(jar), error |-> Str("SpotBugs scan timed out"),
                  status |-> Str("timeout")])
      [] OTHER ->
            Dict([jar |-> Path(jar), error |-> Str("exception"),
                  status |-> Str("error")])

RECURSIVE spotbugs_loop(_, _, _, _)
\* SASTScanner._run_spotbugs: the loop from jar i on, all_findings so far
spotbugs_loop(jars, os, i, all_findings) ==
    IF i > Len(jars)
    THEN Dict([findings |-> List(all_findings), status |-> Str("completed")])
    ELSE IF os[i].proc = "absent"
         THEN Err("SpotBugs not installed", "not_installed")
         ELSE spotbugs_loop(jars, os, i + 1,
                            Append(all_findings, spotbugs_entry(jars[i], os[i])))

\* SASTScanner._run_spotbugs
run_spotbugs(jars, os) == spotbugs_loop(jars, os, 1, <<>>)

----------------------------------------------------------------------------
(* ConsistencyScanner: _find_conflicts *)

MaxPkgs == 4   \* entries of sbom_data['artifacts']

\* ord(c) of the characters of the version strings below
ord(c) ==
    CASE c = "." -> 46
      [] c = "0" -> 48
      [] c = "1" -> 49
      [] c = "2" -> 50
      [] c = "9" -> 57

\* a < b for two Python str, each held as the sequence of its characters
str_lt(a, b) ==
    \E k \in 1..(Len(a) + 1) :
        /\ \A j \in 1..(k - 1) : j <= Len(b) /\ a[j] = b[j]
        /\ \/ k = Len(a) + 1 /\ Len(b) >= k
           \/ k <= Len(a) /\ k <= Len(b) /\ ord(a[k]) < ord(b[k])

RECURSIVE sorted_desc(_)
\* the versions in descending order
sorted_desc(S) ==
    IF S = {} THEN <<>>
    ELSE LET m == CHOOSE x \in S : \A y \in S \ {x} : str_lt(y, x)
         IN  <<m>> \o sorted_desc(S \ {m})

RECURSIVE sorted(_)
\* sorted(list(versions))
sorted(S) ==
    IF S = {} THEN <<>>
    ELSE LET m == CHOOSE x \in S : \A y \in S \ {x} : str_lt(x, y)
         IN  <<m>> \o sorted(S \ {m})

\* a key that leaves the type out
group_key_name(pkg) == <<pkg.name, "any">>

\* key = (name, p_type)
group_key(pkg) == <<pkg.name, pkg.type>>

RECURSIVE registry_keys(_, _, _)
\* the keys of registry in the order the loop over packages inserts them
registry_keys(packages, i, keys) ==
    IF i > Len(packages) THEN keys
    ELSE registry_keys(packages, i + 1,
                       IF group_key(packages[i]) \in Range(keys) THEN keys
                       ELSE Append(keys, group_key(packages[i])))

\* registry[key]
registry_versions(packages, key) ==
    {packages[i].version : i \in {j \in 1..Len(packages) : group_key(packages[j]) = key}}

\* the words 'x' for which the test 'x' in pkg_type of _generate_remediation
\* holds, for the types syft reports below
type_mentions(pkg_type) ==
    CASE pkg_type = "maven" -> {"maven"}
      [] pkg_type = "java-archive" -> {"java"}
      [] pkg_type = "python" -> {"python"}
      [] pkg_type = "npm" -> {"npm"}
      [] OTHER -> {}

NoVersion == <<>>

\* _generate_remediation: which advice it gives and the version it names
generate_remediation(name, pkg_type, latest_version) ==
    LET m == type_mentions(pkg_type)
    IN  IF m \cap {"maven", "java"} # {}
        THEN [advice |-> "dependencyManagement", names |-> latest_version]
        ELSE IF m \cap {"python", "pip"} # {}
        THEN [advice |-> "pin", names |-> latest_version]
        ELSE IF m \cap {"npm", "node"} # {}
        THEN [advice |-> "dedupe", names |-> NoVersion]
        ELSE [advice |-> "investigate", names |-> latest_version]

\* the record _find_conflicts appends for a key with more than one version
conflict_record(packages, key) ==
    LET sorted_versions == sorted(registry_versions(packages, key))
        p_type == key[2]
    IN  [package |-> key[1],
         type |-> p_type,
         versions |-> sorted_versions,
         severity |-> "MEDIUM",
         remediation |-> generate_remediation(key[1], p_type,
                             sorted_versions[Len(sorted_versions)])]

RECURSIVE conflicts_of(_, _, _)
\* the loop over registry.items() from key i on
conflicts_of(packages, keys, i) ==
    IF i > Len(keys) THEN <<>>
    ELSE (IF Cardinality(registry_versions(packages, keys[i])) > 1
          THEN <<conflict_record(packages, keys[i])>> ELSE <<>>)
         \o conflicts_of(packages, keys, i + 1)

\* ConsistencyScanner._find_conflicts on sbom_data['artifacts'] = packages
find_conflicts(packages) ==
    conflicts_of(packages, registry_keys(packages, 1, <<>>), 1)

----------------------------------------------------------------------------
(* SpecSbom: _find_conflicts applied to the package lists below *)

\* the pipeline variables while a function is examined on its own
PipeAt(position) ==
    /\ repo_path = Repo
    /\ fs = {}
    /\ build_enabled = TRUE
    /\ enabled = Categories
    /\ artifacts = EmptyArtifacts
    /\ pc = position
    /\ build_roots = <<>>
    /\ idx = 1
    /\ build_results = EmptyBuildResults
    /\ results = [c \in Categories |-> "absent"]
    /\ unit = 1
    /\ first_inv = AsSets(EmptyArtifacts)
    /\ ndetect = 0

\* the version strings "1.9", "1.10" and "2.0"
VersionUniverse ==
    {<<"1", ".", "9">>, <<"1", ".", "1", "0">>, <<"2", ".", "0">>}

\* the entries of an SBOM: {'name': .., 'version': .., 'type': ..}
PackageUniverse ==
    [name : {"libX", "libY"}, version : VersionUniverse, type : {"maven", "npm"}]

InitSbom ==
    /\ PipeAt("sbom")
    /\ sbom \in SeqUpTo(PackageUniverse, MaxPkgs)
    /\ conflicts = <<>>
    /\ NoRepoManager
    /\ tools = DefaultTools
    /\ report_file = NoFile
    /\ scan_out = Dict(<<>>)
    /\ runlog = {}
    /\ raised = FALSE
    /\ summary = None

\* findings = self._find_conflicts(sbom_data)
FindConflicts ==
    /\ pc = "sbom"
    /\ conflicts' = find_conflicts(sbom)
    /\ pc' = "found"
    /\ UNCHANGED <<repo_path, fs, build_enabled, enabled, artifacts, build_roots,
                   idx, build_results, results, unit, first_inv, ndetect>>
    /\ UNCHANGED <<tools, report_file, scan_out, runlog, raised, summary, sbom>>
    /\ UNCHANGED repovars

NextSbom == FindConflicts

SpecSbom == InitSbom /\ [][NextSbom]_vars

\* the (name, type) groups of a package list and the versions of a group
Groups(packages) == {<<p.name, p.type>> : p \in Range(packages)}
GroupVersions(packages, g) ==
    {p.version : p \in {q \in Range(packages) : q.name = g[1] /\ q.type = g[2]}}

\* the records of a conflict list that are about group g
RecordsOf(cs, g) ==
    {i \in 1..Len(cs) : cs[i].package = g[1] /\ cs[i].type = g[2]}

\* C18: _find_conflicts returns exactly one record for each (name, type)
\* group of the SBOM with two or more distinct versions and none for a group
\* with one version; every record is about one group of the SBOM and holds
\* the versions of that group only, so that packages with the same name and
\* another type are not merged into it.
InvC18 ==
    pc = "found" =>
        /\ \A g \in Groups(sbom) :
              Cardinality(RecordsOf(conflicts, g)) =
                  IF Cardinality(GroupVersions(sbom, g)) >= 2 THEN 1 ELSE 0
        /\ \A i \in 1..Len(conflicts) :
              /\ <<conflicts[i].package, conflicts[i].type>> \in Groups(sbom)
              /\ Range(conflicts[i].versions) =
                    GroupVersions(sbom, <<conflicts[i].package, conflicts[i].type>>)

\* libX has two versions under maven and one under npm, libY one version:
\* one record, for (libX, maven)
WitC18 ==
    /\ pc = "found"
    /\ Len(conflicts) = 1
    /\ conflicts[1].package = "libX" /\ conflicts[1].type = "maven"
    /\ Len(conflicts[1].versions) = 2
    /\ <<"libX", "npm">> \in Groups(sbom)
    /\ <<"libY", "maven">> \in Groups(sbom)

\* the list with its entries i and i + 1 exchanged
Swap(q, i) ==
    [j \in 1..Len(q) |-> IF j = i THEN q[i + 1] ELSE IF j = i + 1 THEN q[i] ELSE q[j]]

\* C19: every conflict record has severity MEDIUM and a versions list that
\* holds the distinct versions of its group in strictly ascending
\* lexicographic order, with at least two entries; the records found do not
\* change when two neighbouring SBOM entries are exchanged (hence under any
\* reordering); a version named by the remediation is the last of the list.
InvC19 ==
    pc = "found" =>
        /\ \A i \in 1..Len(conflicts) :
              LET c == conflicts[i]
              IN  /\ c.severity = "MEDIUM"
                  /\ Len(c.versions) >= 2
                  /\ \A j \in 1..Len(c.versions), k \in 1..Len(c.versions) :
                        j < k => str_lt(c.versions[j], c.versions[k])
                  /\ Range(c.versions) = GroupVersions(sbom, <<c.package, c.type>>)
                  /\ c.remediation.names # NoVersion =>
                        c.remediation.names = c.versions[Len(c.versions)]
        /\ \A i \in 1..(Len(sbom) - 1) :
              Range(find_conflicts(Swap(sbom, i))) = Range(conflicts)

\* the SBOM lists 2.0, then 1.9, then 1.10 of a maven package: the record
\* holds 1.10, 1.9, 2.0 and the remediation names 2.0
WitC19 ==
    /\ pc = "found"
    /\ Len(sbom) >= 3
    /\ sbom[1].version = <<"2", ".", "0">>
    /\ sbom[2].version = <<"1", ".", "9">>
    /\ sbom[3].version = <<"1", ".", "1", "0">>
    /\ Len(conflicts) = 1
    /\ conflicts[1].type = "maven"
    /\ conflicts[1].versions =
          << <<"1", ".", "1", "0">>, <<"1", ".", "9">>, <<"2", ".", "0">> >>
    /\ conflicts[1].remediation.names = <<"2", ".", "0">>

----------------------------------------------------------------------------
(* The scan units of the artifact stage *)

\* {'<key>': target, 'error': msg, 'status': status} of a per-target wrapper
ErrOn(key, target, msg, status) ==
    put(Err(msg, status), key, Path(target))

\* the shape shared by the per-target wrappers that parse stdout as JSON
json_tool_on(key, target, o, accepted, timed_out, not_installed) ==
    CASE o.proc = "timeout" -> ErrOn(key, target, timed_out, "timeout")
      [] o.proc = "absent" -> ErrOn(key, target, not_installed, "not_installed")
      [] o.proc = "raise" -> ErrOn(key, target, "exception", "error")
      [] o.proc \in accepted ->
            IF o.out.ok
            THEN put(Dict([results |-> o.out.v, status |-> Str("completed")]),
                     key, Path(target))
            ELSE put(CompletedEmpty, key, Path(target))
      [] OTHER -> ErrOn(key, target, "stderr", "failed")

\* ContainerScanner._identify_images: listing is what 'docker images' did and
\* the lines it printed
identify_images(listing) ==
    IF listing.proc = "exit0" /\ listing.images # <<>>
    THEN listing.images ELSE << <<"alpine:latest">> >>

\* ContainerScanner._run_trivy_image
run_trivy_image(image, o) ==
    json_tool_on("image", image, o, {"exit0"}, "Trivy scan timed out",
                 "Trivy not installed")

\* ContainerScanner._run_grype_image
run_grype_image(image, o) ==
    json_tool_on("image", image, o, {"exit0"}, "Grype scan timed out",
                 "Grype not installed")

\* HelmScanner._run_kubescan
run_kubescan(chart, o) ==
    json_tool_on("chart", chart, o, {"exit0", "exit1"},
                 "Kubescape scan timed out", "Kubescape not installed")

\* HelmScanner._run_kubeaudit: t is what 'helm template' did, a what
\* 'kubeaudit' does when it is started
run_kubeaudit(chart, t, a) ==
    CASE t.proc = "timeout" -> ErrOn("chart", chart, "Kubeaudit timed out", "timeout")
      [] t.proc = "absent" ->
            ErrOn("chart", chart, "Kubeaudit or Helm not installed", "not_installed")
      [] t.proc = "raise" -> ErrOn("chart", chart, "exception", "error")
      [] t.proc # "exit0" -> ErrOn("chart", chart, "Failed to template chart", "failed")
      [] a.proc = "timeout" -> ErrOn("chart", chart, "Kubeaudit timed out", "timeout")
      [] a.proc = "absent" ->
            ErrOn("chart", chart, "Kubeaudit or Helm not installed", "not_installed")
      [] a.proc = "raise" -> ErrOn("chart", chart, "exception", "error")
      [] OTHER -> Dict([chart |-> Path(chart), output |-> Str("stdout"),
                        status |-> Str("completed")])

\* HelmScanner._run_helm_lint
run_helm_lint(chart, o) ==
    CASE o.proc = "timeout" -> ErrOn("chart", chart, "Helm lint timed out", "timeout")
      [] o.proc = "absent" -> ErrOn("chart", chart, "Helm not installed", "not_installed")
      [] o.proc = "raise" -> ErrOn("chart", chart, "exception", "error")
      [] OTHER -> Dict([chart |-> Path(chart), output |-> Str("stdout"),
                        errors |-> Str("stderr"),
                        status |-> Str(IF o.proc = "exit0" THEN "completed"
                                       ELSE "issues_found")])

\* HelmScanner._run_trivy_helm
run_trivy_helm(chart, o) ==
    json_tool_on("chart", chart, o, {"exit0"}, "Trivy scan timed out",
                 "Trivy not installed")

\* LintScanner._run_hadolint
run_hadolint(dockerfile, o) ==
    CASE o.proc = "timeout" ->
            ErrOn("dockerfile", dockerfile, "Hadolint timed out", "timeout")
      [] o.proc = "absent" ->
            ErrOn("dockerfile", dockerfile, "Hadolint not installed", "not_installed")
      [] o.proc = "raise" -> ErrOn("dockerfile", dockerfile, "exception", "error")
      [] o.proc = "exit2" ->
            ErrOn("dockerfile", dockerfile, "Hadolint crashed with code", "error")
      [] o.proc = "exit1" /\ o.out.empty ->
            ErrOn("dockerfile", dockerfile,
                  "Hadolint returned status 1 but empty output", "error")
      [] OTHER -> Dict([dockerfile |-> Path(dockerfile), output |-> Str("stdout"),
                        status |-> Str(IF o.proc = "exit0" THEN "completed"
                                       ELSE "issues_found")])

\* the packages of a parsed SBOM: sbom_data.get('artifacts', []) with each
\* entry's name, version and type
sbom_packages(v) ==
    LET entries == get(v, "artifacts", List(<<>>)).items
    IN  [i \in 1..Len(entries) |-> entries[i].d]

\* a conflict record as the dict the scanner returns
conflict_dict(c) ==
    Dict([package |-> Str(c.package), type |-> Str(c.type),
          versions |-> List([j \in 1..Len(c.versions) |-> Path(c.versions[j])]),
          severity |-> Str(c.severity),
          remediation |-> Str(c.remediation.advice)])

\* findings = self._find_conflicts(sbom_data), as a list of dicts
found_conflicts(packages) ==
    LET cs == find_conflicts(packages)
    IN  List([i \in 1..Len(cs) |-> conflict_dict(cs[i])])

\* ConsistencyScanner.scan once the scanner is enabled; "absent" is
\* shutil.which('syft') finding nothing
consistency_scan(o) ==
    CASE o.proc = "absent" -> Err("Syft binary not found", "not_installed")
      [] o.proc = "timeout" -> Err("Syft analysis timed out", "timeout")
      [] o.proc = "raise" -> Err("exception", "error")
      [] o.proc # "exit0" -> Err("stderr", "failed")
      [] ~o.out.ok -> Err("Failed to parse Syft output", "failed")
      [] ~has_get(o.out.v) -> Err("exception", "error")
      [] OTHER -> Dict([findings |-> found_conflicts(sbom_packages(o.out.v)),
                        status |-> Str("completed"), tool |-> Str("syft")])

----------------------------------------------------------------------------
(* ReportGenerator: _generate_summary *)

SummaryCategories ==
    {"secrets", "dependencies", "iac", "sast", "containers", "helm", "linting",
     "consistency"}

Severities == {"critical", "high", "medium", "low", "info"}

ZeroCounts == [k \in Severities |-> 0]

\* s.lower() for the severity words of the tools
lower_word(s) ==
    CASE s = "CRITICAL" -> "critical"
      [] s = "HIGH" -> "high"
      [] s = "MEDIUM" -> "medium"
      [] s = "LOW" -> "low"
      [] s = "INFO" -> "info"
      [] s = "UNKNOWN" -> "unknown"
      [] s = "NEGLIGIBLE" -> "negligible"
      [] s = "ERROR" -> "error"
      [] s = "WARNING" -> "warning"
      [] OTHER -> s

\* a step of a section: whether it raised, and the counters it leaves
Step(raises, counts) == [raises |-> raises, counts |-> counts]

\* counts with counts[k] + n
add(counts, k, n) == [counts EXCEPT ![k] = @ + n]

\* what 'for x in v' goes through; None is not iterable, and a str or the
\* keys of a dict hold nothing the loops below count
iterable(v) == v.shape # "none"
elems(v) == IF v.shape = "list" THEN v.items ELSE <<>>

\* a bucket rule that counts a severity that is no counter as 'low'
bucket_low(severity) == IF severity \in Severities THEN severity ELSE "low"

\* the bucket of one entry: severity if it is a counter, else 'info'
bucket(severity) == IF severity \in Severities THEN severity ELSE "info"

RECURSIVE count_entries(_, _, _, _, _)
\* the loop 'for vuln in entries' from entry i on: each entry's
\* .get(key, default).lower() is counted in its bucket
count_entries(entries, key, default, i, step) ==
    IF step.raises \/ i > Len(entries) THEN step
    ELSE LET e == entries[i]
             sev == IF has_get(e) THEN get(e, key, Str(default)) ELSE None
         IN  IF ~has_get(e) \/ sev.shape # "str"
             THEN Step(TRUE, step.counts)
             ELSE count_entries(entries, key, default, i + 1,
                      Step(FALSE, add(step.counts, bucket(lower_word(sev.s)), 1)))

RECURSIVE count_results(_, _, _, _)
\* the loop 'for result in ...['Results']' from result i on
count_results(rs, listed, i, step) ==
    IF step.raises \/ i > Len(rs) THEN step
    ELSE LET result == rs[i]
         IN  IF result.shape = "none" THEN Step(TRUE, step.counts)
             ELSE IF result.shape = "dict" /\ has_key(result, listed)
             THEN IF ~iterable(result.d[listed]) THEN Step(TRUE, step.counts)
                  ELSE count_results(rs, listed, i + 1,
                           count_entries(elems(result.d[listed]), "Severity",
                                         "UNKNOWN", 1, step))
             ELSE count_results(rs, listed, i + 1, step)

\* the Trivy sections (2 and 3): results.get(cat, {}).get('trivy', {})
\* .get('Results') and the loops over it
trivy_section(rmap, cat, listed) ==
    LET c == get(rmap, cat, Dict(<<>>))
        t == IF has_get(c) THEN get(c, "trivy", Dict(<<>>)) ELSE None
        r == IF has_get(t) THEN get(t, "Results", None) ELSE None
    IN  IF ~has_get(c) \/ ~has_get(t) THEN Step(TRUE, ZeroCounts)
        ELSE IF ~truthy(r) THEN Step(FALSE, ZeroCounts)
        ELSE count_results(elems(r), listed, 1, Step(FALSE, ZeroCounts))

\* section 1: secrets
secrets_section(rmap) ==
    LET c == get(rmap, "secrets", Dict(<<>>))
        findings == IF has_get(c) THEN get(c, "gitleaks", None) ELSE None
    IN  IF ~has_get(c) THEN Step(TRUE, ZeroCounts)
        ELSE IF truthy(findings)
        THEN Step(FALSE, [ZeroCounts EXCEPT !["high"] = len(findings)])
        ELSE Step(FALSE, ZeroCounts)

\* section 3, Checkov, on the counters the Trivy part left
checkov_section(rmap, counts) ==
    LET c == get(rmap, "iac", Dict(<<>>))
        checkov_res == IF has_get(c) THEN get(c, "checkov", None) ELSE None
    IN  IF ~has_get(c) THEN Step(TRUE, counts)
        ELSE IF ~truthy(checkov_res) THEN Step(FALSE, counts)
        ELSE IF checkov_res.shape = "list"
        THEN Step(FALSE, add(counts, "medium", len(checkov_res)))
        ELSE IF checkov_res.shape = "dict" /\ has_key(checkov_res, "results")
        THEN LET rs == checkov_res.d["results"]
                 failed == IF has_get(rs) THEN get(rs, "failed_checks", List(<<>>))
                           ELSE None
             IN  IF ~has_get(rs) \/ failed.shape \notin {"list", "dict", "str"}
                 THEN Step(TRUE, counts)
                 ELSE Step(FALSE, add(counts, "medium", len(failed)))
        ELSE Step(FALSE, counts)

\* section 4: consistency
consistency_section(rmap) ==
    LET c == get(rmap, "consistency", Dict(<<>>))
        findings == IF has_get(c) THEN get(c, "findings", None) ELSE None
    IN  IF ~has_get(c) THEN Step(TRUE, ZeroCounts)
        ELSE IF ~truthy(findings) THEN Step(FALSE, ZeroCounts)
        ELSE count_entries(elems(findings), "severity", "medium", 1,
                           Step(FALSE, ZeroCounts))

RECURSIVE count_semgrep(_, _, _)
\* the loop over sast_res['results'] from finding i on
count_semgrep(findings, i, step) ==
    IF step.raises \/ i > Len(findings) THEN step
    ELSE LET f == findings[i]
             extra == IF has_get(f) THEN get(f, "extra", Dict(<<>>)) ELSE None
             sev == IF has_get(extra) THEN get(extra, "severity", Str("medium"))
                    ELSE None
         IN  IF ~has_get(f) \/ ~has_get(extra) \/ sev.shape # "str"
             THEN Step(TRUE, step.counts)
             ELSE count_semgrep(findings, i + 1,
                      Step(FALSE,
                           add(step.counts,
                               CASE lower_word(sev.s) = "error" -> "high"
                                 [] lower_word(sev.s) = "warning" -> "medium"
                                 [] OTHER -> "info", 1)))

\* section 5: SAST
sast_section(rmap) ==
    LET sast_res == get(rmap, "sast", None)
    IN  IF ~truthy(sast_res) THEN Step(FALSE, ZeroCounts)
        ELSE IF sast_res.shape = "dict" /\ has_key(sast_res, "results")
        THEN IF ~iterable(sast_res.d["results"]) THEN Step(TRUE, ZeroCounts)
             ELSE count_semgrep(elems(sast_res.d["results"]), 1,
                                Step(FALSE, ZeroCounts))
        ELSE IF sast_res.shape = "list"
        THEN Step(FALSE, add(ZeroCounts, "medium", len(sast_res)))
        ELSE IF sast_res.shape = "dict" /\ has_key(sast_res, "spotbugs")
        THEN LET sb == sast_res.d["spotbugs"]
             IN  IF sb.shape = "dict" /\ has_key(sb, "findings")
                 THEN IF sb.d["findings"].shape \notin {"list", "dict", "str"}
                      THEN Step(TRUE, ZeroCounts)
                      ELSE Step(FALSE, add(ZeroCounts, "medium", len(sb.d["findings"])))
                 ELSE Step(FALSE, ZeroCounts)
        ELSE Step(FALSE, ZeroCounts)

\* section 6: linting
linting_section(rmap) ==
    LET lint_res == get(rmap, "linting", None)
    IN  IF ~truthy(lint_res) THEN Step(FALSE, ZeroCounts)
        ELSE IF lint_res.shape = "dict"
        THEN IF has_key(lint_res, "hadolint")
             THEN LET files == lint_res.d["hadolint"]
                  IN  IF ~iterable(files) \/ \E i \in 1..Len(elems(files)) :
                                                 ~has_get(elems(files)[i])
                      THEN Step(TRUE, ZeroCounts)
                      ELSE Step(FALSE,
                               add(ZeroCounts, "low",
                                   Cardinality({i \in 1..Len(elems(files)) :
                                       get(elems(files)[i], "status", None)
                                           = Str("issues_found")})))
             ELSE Step(FALSE, ZeroCounts)
        ELSE IF lint_res.shape = "list"
        THEN Step(FALSE, add(ZeroCounts, "info", len(lint_res)))
        ELSE Step(FALSE, ZeroCounts)

\* a summary that also counts the artifact categories: the image reports of
\* Trivy as high, the charts helm lint complained about as low
generate_summary_artifacts(rmap) ==
    LET secrets == secrets_section(rmap)
        deps == trivy_section(rmap, "dependencies", "Vulnerabilities")
        iac_trivy == trivy_section(rmap, "iac", "Misconfigurations")
        iac == IF iac_trivy.raises THEN iac_trivy
               ELSE checkov_section(rmap, iac_trivy.counts)
        consistency == consistency_section(rmap)
        sast == sast_section(rmap)
        linting == linting_section(rmap)
        images == elems(get(get(rmap, "containers", Dict(<<>>)), "trivy", List(<<>>)))
        charts == elems(get(get(rmap, "helm", Dict(<<>>)), "helm_lint", List(<<>>)))
    IN  [raises |-> \/ secrets.raises \/ deps.raises \/ iac.raises
                    \/ consistency.raises \/ sast.raises \/ linting.raises,
         counts |-> [secrets |-> secrets.counts,
                     dependencies |-> deps.counts,
                     iac |-> iac.counts,
                     sast |-> sast.counts,
                     containers |-> add(ZeroCounts, "high", Len(images)),
                     helm |-> add(ZeroCounts, "low", Len(charts)),
                     linting |-> linting.counts,
                     consistency |-> consistency.counts]]

\* ReportGenerator._generate_summary: whether it raises, and the summary it
\* returns when it does not
generate_summary(rmap) ==
    LET secrets == secrets_section(rmap)
        deps == trivy_section(rmap, "dependencies", "Vulnerabilities")
        iac_trivy == trivy_section(rmap, "iac", "Misconfigurations")
        iac == IF iac_trivy.raises THEN iac_trivy
               ELSE checkov_section(rmap, iac_trivy.counts)
        consistency == consistency_section(rmap)
        sast == sast_section(rmap)
        linting == linting_section(rmap)
    IN  [raises |-> \/ secrets.raises \/ deps.raises \/ iac.raises
                    \/ consistency.raises \/ sast.raises \/ linting.raises,
         counts |-> [secrets |-> secrets.counts,
                     dependencies |-> deps.counts,
                     iac |-> iac.counts,
                     sast |-> sast.counts,
                     containers |-> ZeroCounts,
                     helm |-> ZeroCounts,
                     linting |-> linting.counts,
                     consistency |-> consistency.counts]]

----------------------------------------------------------------------------
(* What the tools print: the payloads and the runs of the model *)

\* one gitleaks finding, one Trivy entry of a severity, one Checkov check,
\* one Semgrep finding
Finding == Dict([RuleID |-> Str("generic-api-key")])
Vuln(sev) == Dict([Severity |-> Str(sev)])
Check == Dict([check_id |-> Str("CKV_DOCKER_2")])
SemgrepFinding(sev) == Dict([extra |-> Dict([severity |-> Str(sev)])])

\* a Trivy report with one target that lists entries under the key listed
TrivyReport(listed, entries) ==
    Dict([Results |->
            List(<<Dict(("Target" :> Str("target")) @@ (listed :> List(entries)))>>)])

\* a Trivy report of a scan that found nothing
TrivyClean == Dict([SchemaVersion |-> Str("2")])

TrivyFsPayloads ==
    {TrivyClean, TrivyReport("Vulnerabilities", <<Vuln("HIGH"), Vuln("NEGLIGIBLE")>>),
     List(<<>>)}

TrivyConfigPayloads ==
    {TrivyClean, TrivyReport("Misconfigurations", <<Vuln("CRITICAL")>>)}

CheckovClean == Dict([results |-> Dict([failed_checks |-> List(<<>>)])])

CheckovPayloads ==
    {CheckovClean, Dict([results |-> Dict([failed_checks |-> List(<<Check>>)])])}

SemgrepClean == Dict([results |-> List(<<>>)])

SemgrepPayloads ==
    {SemgrepClean, Dict([results |-> List(<<SemgrepFinding("ERROR")>>)])}

ImagePayloads ==
    {TrivyClean, TrivyReport("Vulnerabilities", <<Vuln("CRITICAL")>>)}

\* an SBOM entry as syft prints it
Pkg(name, version, type) ==
    Dict([name |-> name, version |-> version, type |-> type])

SbomClean == Dict([artifacts |-> List(<<Pkg("libX", <<"1", ".", "9">>, "maven")>>)])

SbomPayloads ==
    {SbomClean,
     Dict([artifacts |-> List(<<Pkg("libX", <<"1", ".", "9">>, "maven"),
                                Pkg("libX", <<"2", ".", "0">>, "maven")>>)]),
     List(<<>>)}

\* the runs of a tool whose stdout is parsed as JSON: every end of the
\* process, and after an exit every text it may have printed
JsonRuns(payloads) ==
    {Run(e, out, NoFile) : e \in Exits,
                           out \in {NoText, Garbage} \cup {Json(p) : p \in payloads}}
    \cup {Run(p, NoText, NoFile) : p \in Procs \ Exits}

\* the runs of a tool whose stdout is kept as text
TextRuns ==
    {Run(e, out, NoFile) : e \in Exits, out \in {NoText, Garbage}}
    \cup {Run(p, NoText, NoFile) : p \in Procs \ Exits}

\* the runs of gitleaks: what it writes to its report file
GitleaksRuns ==
    {Run(e, NoText, w) : e \in Exits,
                         w \in {NoFile, Garbage, Json(List(<<>>)),
                                Json(List(<<Finding, Finding, Finding>>))}}
    \cup {Run(p, NoText, NoFile) : p \in Procs \ Exits}

\* 'docker images': it lists the images built, or docker cannot be run
Listing(proc, images) == [proc |-> proc, images |-> images]
ListingRuns(a) ==
    {Listing("exit0", a.docker_images), Listing("absent", <<>>)}

\* the runs of a tool whose stdout is not looked at
ProcRuns == {Run(p, NoText, NoFile) : p \in Procs}

\* the two processes of _run_kubeaudit
Both(t, a) == [t |-> t, a |-> a]
KubeauditRuns == {Both(t, a) : t \in ProcRuns, a \in ProcRuns}

----------------------------------------------------------------------------
(* The scanners: scan of each category, from the runs of its units *)

MaxOdd == 1   \* units of one scan whose run is not the plain one

\* a unit: a tool of a category on target i (0: the repository itself)
Slot(tool, i) == <<tool, i>>

\* the units the scanner of category c may start, with the configured tools
\* ts and the inventory a
slots(c, ts, a) ==
    CASE c = "secrets" -> {Slot("gitleaks", 0)} \cap (ts \X {0})
      [] c = "sast" ->
            ({Slot("semgrep", 0)} \cap (ts \X {0}))
            \cup {Slot("spotbugs", i) : i \in {j \in 1..Len(a.jar_files) : "spotbugs" \in ts}}
      [] c = "dependencies" -> {Slot("trivy", 0)} \cap (ts \X {0})
      [] c = "iac" -> {Slot("trivy", 0), Slot("checkov", 0)} \cap (ts \X {0})
      [] c = "containers" ->
            {Slot("docker", 0)} \cup (({"trivy", "grype"} \cap ts) \X {1})
      [] c = "helm" ->
            ({"kubescan", "kubeaudit", "helm-lint", "trivy"} \cap ts)
                \X (1..Len(a.helm_charts))
      [] c = "linting" ->
            {Slot("hadolint", i) : i \in {j \in 1..Len(a.dockerfiles) : "hadolint" \in ts}}
      [] c = "consistency" -> {Slot("syft", 0)}

\* the runs a unit may make
unit_runs(c, slot, a) ==
    CASE slot[1] = "gitleaks" -> GitleaksRuns
      [] slot[1] = "semgrep" -> JsonRuns(SemgrepPayloads)
      [] slot[1] = "spotbugs" -> ProcRuns
      [] slot[1] = "trivy" /\ c = "dependencies" -> JsonRuns(TrivyFsPayloads)
      [] slot[1] = "trivy" /\ c = "iac" -> JsonRuns(TrivyConfigPayloads)
      [] slot[1] = "trivy" /\ c = "containers" -> JsonRuns(ImagePayloads)
      [] slot[1] = "trivy" /\ c = "helm" -> JsonRuns(TrivyConfigPayloads)
      [] slot[1] = "checkov" -> JsonRuns(CheckovPayloads)
      [] slot[1] = "docker" -> ListingRuns(a)
      [] slot[1] = "grype" -> JsonRuns(ImagePayloads)
      [] slot[1] = "kubescan" -> JsonRuns({TrivyClean})
      [] slot[1] = "kubeaudit" -> KubeauditRuns
      [] slot[1] = "helm-lint" -> ProcRuns
      [] slot[1] = "hadolint" -> TextRuns
      [] slot[1] = "syft" -> JsonRuns(SbomPayloads)

\* the plain run of a unit: the tool exits with code 0 and reports nothing
plain_run(c, slot, a) ==
    CASE slot[1] = "gitleaks" -> Run("exit0", NoText, Json(List(<<>>)))
      [] slot[1] = "semgrep" -> Run("exit0", Json(SemgrepClean), NoFile)
      [] slot[1] = "checkov" -> Run("exit0", Json(CheckovClean), NoFile)
      [] slot[1] \in {"trivy", "grype", "kubescan"} ->
            Run("exit0", Json(TrivyClean), NoFile)
      [] slot[1] = "docker" -> Listing("exit0", a.docker_images)
      [] slot[1] = "kubeaudit" ->
            Both(Run("exit0", NoText, NoFile), Run("exit0", NoText, NoFile))
      [] slot[1] = "hadolint" -> Run("exit0", NoText, NoFile)
      [] slot[1] = "syft" -> Run("exit0", Json(SbomClean), NoFile)
      [] OTHER -> Run("exit0", NoText, NoFile)

\* the units of a choice of runs whose run is not the plain one
odd_units(c, a, pk) == {u \in DOMAIN pk : pk[u] # plain_run(c, u, a)}

RECURSIVE Picks(_, _, _, _)
\* the choices of a run for every unit of units, at most k of them not plain
Picks(c, a, units, k) ==
    IF k = 0 THEN {[u \in units |-> plain_run(c, u, a)]}
    ELSE LET fewer == Picks(c, a, units, k - 1)
         IN  fewer \cup {[p EXCEPT ![u] = r] :
                            p \in fewer, <<u, r>> \in
                                UNION {{u2} \X unit_runs(c, u2, a) : u2 \in units}}

\* results[tool] of a scanner that runs the tool once, None when the tool is
\* not in the configured list
once(ts, tool, value) == IF tool \in ts THEN value ELSE None

\* the list a per-target scanner builds for a tool over its targets
each(ts, tool, targets, value(_)) ==
    List(IF tool \in ts THEN [i \in 1..Len(targets) |-> value(i)] ELSE <<>>)

\* scanner.scan of category c: the dict it returns. ts are the configured
\* tools, a the inventory, pk the run of every unit, file the gitleaks report
\* file before the scan
scan_value(c, ts, a, pk, file) ==
    CASE c = "secrets" ->
            Dict([gitleaks |->
                    once(ts, "gitleaks", run_gitleaks(pk[Slot("gitleaks", 0)], file))])
      [] c = "sast" ->
            Dict([semgrep |-> once(ts, "semgrep", run_semgrep(pk[Slot("semgrep", 0)])),
                  spotbugs |->
                    IF "spotbugs" \in ts /\ a.jar_files # <<>>
                    THEN run_spotbugs(a.jar_files,
                             [i \in 1..Len(a.jar_files) |-> pk[Slot("spotbugs", i)]])
                    ELSE None])
      [] c = "dependencies" ->
            Dict([trivy |-> once(ts, "trivy", run_trivy_fs(pk[Slot("trivy", 0)]))])
      [] c = "iac" ->
            Dict([trivy |-> once(ts, "trivy", run_trivy_config(pk[Slot("trivy", 0)])),
                  checkov |-> once(ts, "checkov", run_checkov(pk[Slot("checkov", 0)]))])
      [] c = "containers" ->
            LET docker_images == identify_images(pk[Slot("docker", 0)])
            IN  Dict([trivy |-> each(ts, "trivy", docker_images,
                          LAMBDA i : run_trivy_image(docker_images[i], pk[Slot("trivy", i)])),
                      grype |-> each(ts, "grype", docker_images,
                          LAMBDA i : run_grype_image(docker_images[i], pk[Slot("grype", i)]))])
      [] c = "helm" ->
            LET charts == a.helm_charts
            IN  Dict([kubescan |-> each(ts, "kubescan", charts,
                          LAMBDA i : run_kubescan(charts[i], pk[Slot("kubescan", i)])),
                      kubeaudit |-> each(ts, "kubeaudit", charts,
                          LAMBDA i : run_kubeaudit(charts[i], pk[Slot("kubeaudit", i)].t,
                                                   pk[Slot("kubeaudit", i)].a)),
                      helm_lint |-> each(ts, "helm-lint", charts,
                          LAMBDA i : run_helm_lint(charts[i], pk[Slot("helm-lint", i)])),
                      trivy |-> each(ts, "trivy", charts,
                          LAMBDA i : run_trivy_helm(charts[i], pk[Slot("trivy", i)]))])
      [] c = "linting" ->
            Dict([hadolint |-> each(ts, "hadolint", a.dockerfiles,
                          LAMBDA i : run_hadolint(a.dockerfiles[i], pk[Slot("hadolint", i)]))])
      [] c = "consistency" -> consistency_scan(pk[Slot("syft", 0)])

\* the status a result carries, "none" when it carries none
status_of(res) ==
    IF res.shape = "dict" /\ has_key(res, "status") THEN res.d["status"].s
    ELSE "none"

\* the result of one unit inside what its scanner returned
unit_result(c, u, value, a, pk) ==
    CASE c = "consistency" -> value
      [] u[1] = "spotbugs" ->
            IF status_of(value.d["spotbugs"]) = "not_installed"
            THEN value.d["spotbugs"]
            ELSE value.d["spotbugs"].d["findings"].items[u[2]]
      [] u[2] = 0 -> value.d[u[1]]
      [] u[1] = "helm-lint" -> value.d["helm_lint"].items[u[2]]
      [] OTHER -> value.d[u[1]].items[u[2]]

\* whether the scanner started unit u: docker is no unit of its own, and
\* _run_spotbugs stops at the first jar for which spotbugs is missing
started(c, u, a, pk) ==
    /\ u[1] # "docker"
    /\ u[1] = "spotbugs" =>
          \A j \in 1..(u[2] - 1) : pk[Slot("spotbugs", j)].proc # "absent"
    /\ c = "containers" => u[2] <= Len(identify_images(pk[Slot("docker", 0)]))

\* what the run log keeps of a unit: the unit, its run and its result
Entry(c, u, run, res) ==
    [cat |-> c, tool |-> u[1], target |-> u[2], run |-> run, res |-> res]

\* the entries a scan of category c adds to the run log
scan_entries(c, a, pk, value) ==
    {Entry(c, u, pk[u], unit_result(c, u, value, a, pk)) :
        u \in {v \in DOMAIN pk : started(c, v, a, pk)}}

----------------------------------------------------------------------------
(* SpecUnits: the two scanner stages and the reports, with what every tool *)
(* process did                                                             *)

\* the units of the log whose run was not the plain one
odd_entries(log, a) ==
    {e \in log : e.run # plain_run(e.cat, Slot(e.tool, e.target), a)}

\* the statuses with which a unit reports that its tool did not do its work
FailureStatuses == {"failed", "timeout", "not_installed", "error"}

\* a stage that records nothing more once a unit has failed
record_unless_failed(out, c, value) ==
    IF \E e \in runlog : status_of(e.res) \in FailureStatuses THEN out
    ELSE put(out, c, value)

\* self.results[c] = scanner.scan(...)
record(out, c, value) == put(out, c, value)

\* one step of a stage: the scanner of the next category when its unit runs
ScanStep(c) ==
    IF runs(c, enabled, artifacts)
    THEN \E pk \in Picks(c, artifacts, slots(c, tools[c], artifacts),
                         MaxOdd - Cardinality(odd_entries(runlog, artifacts))) :
            LET value == scan_value(c, tools[c], artifacts, pk, report_file)
            IN  /\ scan_out' = record(scan_out, c, value)
                /\ runlog' = runlog \cup scan_entries(c, artifacts, pk, value)
                /\ report_file' =
                      IF Slot("gitleaks", 0) \in DOMAIN pk
                      THEN gitleaks_file(pk[Slot("gitleaks", 0)], report_file)
                      ELSE report_file
                /\ results' = [results EXCEPT ![c] = "present"]
    ELSE UNCHANGED <<scan_out, runlog, report_file, results>>

\* one unit of _run_source_scanners
SourceScan ==
    /\ pc = "source"
    /\ unit <= NSource
    /\ ScanStep(StageOrder[unit])
    /\ unit' = unit + 1
    /\ pc' = IF unit = NSource THEN "artifact" ELSE pc
    /\ UNCHANGED <<repo_path, fs, build_enabled, enabled, artifacts, build_roots,
                   idx, build_results, first_inv, ndetect>>
    /\ UNCHANGED <<tools, raised, summary, sbom, conflicts>>
    /\ UNCHANGED repovars

\* one unit of _run_artifact_scanners
ArtifactScan ==
    /\ pc = "artifact"
    /\ unit <= Len(StageOrder)
    /\ ScanStep(StageOrder[unit])
    /\ unit' = unit + 1
    /\ pc' = IF unit = Len(StageOrder) THEN "report" ELSE pc
    /\ UNCHANGED <<repo_path, fs, build_enabled, enabled, artifacts, build_roots,
                   idx, build_results, first_inv, ndetect>>
    /\ UNCHANGED <<tools, raised, summary, sbom, conflicts>>
    /\ UNCHANGED repovars

\* Step 6 of scan: _generate_reports calls _generate_summary for a format of
\* the report; an exception it raises leaves scan, otherwise scan returns
\* self.results
Report ==
    /\ pc = "report"
    /\ LET s == generate_summary(scan_out)
       IN  /\ raised' = s.raises
           /\ summary' = IF s.raises THEN summary ELSE s.counts
           /\ pc' = IF s.raises THEN "raised" ELSE "done"
    /\ UNCHANGED <<repo_path, fs, build_enabled, enabled, artifacts, build_roots,
                   idx, build_results, results, unit, first_inv, ndetect>>
    /\ UNCHANGED <<tools, report_file, scan_out, runlog, sbom, conflicts>>
    /\ UNCHANGED repovars

\* the inventories with which scan reaches step 4: nothing found; a
\* Dockerfile, a chart and a jar with no image built; and the same after a
\* build that left a second jar and an image
UnitDockerfile == Repo \o <<"Dockerfile">>

UnbuiltInventory ==
    [EmptyArtifacts EXCEPT
        !.dockerfiles = <<UnitDockerfile>>,
        !.helm_charts = <<Repo \o <<"chart">>>>,
        !.jar_files = <<Repo \o <<"lib", "x.jar">>>>]

BuiltInventory ==
    [UnbuiltInventory EXCEPT
        !.build_files = <<[type |-> "maven", path |-> Repo \o <<"pom.xml">>,
                           dir |-> Repo]>>,
        !.jar_files = @ \o <<Repo \o <<"target", "app.jar">>>>,
        !.docker_images = <<image_tag(UnitDockerfile, Repo)>>]

UnitInventories == {EmptyArtifacts, UnbuiltInventory, BuiltInventory}

\* the tool lists of the configurations examined: none given; dependencies
\* without trivy; and one tool dropped from several scanners
ToolConfigs ==
    {DefaultTools,
     [DefaultTools EXCEPT !.dependencies = {"owasp-dependency-check"}],
     [DefaultTools EXCEPT !.sast = {"semgrep"}, !.containers = {"grype"},
                          !.helm = {"kubeaudit", "helm-lint"}]}

\* the report file an earlier scan may have left
StaleReports == {NoFile, Json(List(<<Finding>>))}

InitUnits ==
    /\ repo_path = Repo
    /\ fs = {}
    /\ build_enabled = TRUE
    /\ enabled \in ScanConfigs
    /\ artifacts \in UnitInventories
    /\ pc = "source"
    /\ build_roots = <<>>
    /\ idx = 1
    /\ build_results = EmptyBuildResults
    /\ results = [c \in Categories |-> "absent"]
    /\ unit = 1
    /\ first_inv = AsSets(artifacts)
    /\ ndetect = 1
    /\ tools \in ToolConfigs
    /\ report_file \in StaleReports
    /\ scan_out = Dict(<<>>)
    /\ runlog = {}
    /\ raised = FALSE
    /\ summary = None
    /\ sbom = <<>>
    /\ conflicts = <<>>
    /\ NoRepoManager

NextUnits == SourceScan \/ ArtifactScan \/ Report

SpecUnits == InitUnits /\ [][NextUnits]_vars

----------------------------------------------------------------------------
(* The stages and their units: C11 to C17 *)

SourceEnded == pc \in {"artifact", "report", "done", "raised"}
ArtifactEnded == pc \in {"report", "done", "raised"}

\* the categories of a stage that are enabled, and those whose unit the
\* orchestrator starts: containers only with an image in the inventory, helm
\* only with a chart
EnabledOf(stage) == stage \cap enabled
StartedOf(stage) == {c \in stage : runs(c, enabled, artifacts)}

\* C11 as stated: when a stage ends, self.results holds an entry for every
\* enabled category of the stage, whatever the outcomes of the units.
InvC11 ==
    /\ SourceEnded => \A c \in EnabledOf(SourceStage) : has_key(scan_out, c)
    /\ ArtifactEnded => \A c \in EnabledOf(ArtifactStage) : has_key(scan_out, c)

\* C11 amended: when a stage ends, self.results holds an entry for every
\* enabled category of the stage whose unit the orchestrator starts
\* (containers only when the inventory holds an image, helm only when it
\* holds a chart), whatever the outcomes of the other units; and every unit
\* such a scanner starts has its result in that entry.
ThmC11 ==
    /\ SourceEnded => \A c \in StartedOf(SourceStage) : has_key(scan_out, c)
    /\ ArtifactEnded => \A c \in StartedOf(ArtifactStage) : has_key(scan_out, c)
    /\ \A c \in Categories :
          has_key(scan_out, c) =>
              \A u \in slots(c, tools[c], artifacts) \ {Slot("docker", 0)} :
                  \/ \E e \in runlog : e.cat = c /\ e.tool = u[1] /\ e.target = u[2]
                  \/ /\ u[1] = "spotbugs"
                     /\ status_of(scan_out.d[c].d["spotbugs"]) = "not_installed"

\* the artifact stage has ended; a unit of the stage reported a failure and
\* the categories after it in the stage have their entries
WitC11 ==
    /\ ArtifactEnded
    /\ has_key(scan_out, "containers")
    /\ \E e \in runlog :
          e.cat = "containers" /\ status_of(e.res) \in {"timeout", "not_installed"}
    /\ has_key(scan_out, "helm")
    /\ has_key(scan_out, "linting")
    /\ has_key(scan_out, "consistency")

UnitStatuses ==
    {"completed", "issues_found", "failed", "timeout", "not_installed", "error"}

\* C12: every unit that was started ended with a result that carries one of
\* the six statuses; no unit returned a result without a status.
InvC12 == \A e \in runlog : status_of(e.res) \in UnitStatuses

\* whether an executable the unit of a log entry uses does not exist
ToolAbsent(e) ==
    IF e.tool = "kubeaudit" THEN e.run.t.proc = "absent" \/ e.run.a.proc = "absent"
    ELSE e.run.proc = "absent"

\* C13: a unit one of whose executables does not exist returns the status
\* not_installed, units that use two executables included.
InvC13 == \A e \in runlog : ToolAbsent(e) => status_of(e.res) = "not_installed"

\* whether a process of the unit of a log entry outlived its timeout
TimedOut(e) ==
    IF e.tool = "kubeaudit"
    THEN e.run.t.proc = "timeout" \/ (e.run.t.proc = "exit0" /\ e.run.a.proc = "timeout")
    ELSE e.run.proc = "timeout"

\* C14: a scan unit or a build step whose process outlives its timeout has
\* the status timeout, and no other status.
InvC14 ==
    /\ \A e \in runlog :
          (TimedOut(e) /\ ~ToolAbsent(e)) => status_of(e.res) = "timeout"
    /\ \A b \in AllBuildEntries : b.proc = "timeout" => b.status = "timeout"

\* the exit code of the process a unit ended with, "none" when it did not exit
ExitOf(e) ==
    IF e.tool = "kubeaudit"
    THEN (IF e.run.t.proc = "exit0" /\ e.run.a.proc \in Exits THEN e.run.a.proc
          ELSE IF e.run.t.proc \in Exits \ {"exit0"} THEN e.run.t.proc ELSE "none")
    ELSE IF e.run.proc \in Exits THEN e.run.proc ELSE "none"

\* C15: exit code 0 is never reported as a failure, exit code 1 is not
\* reported as a failure for checkov, semgrep, hadolint and kubescape, and
\* any other exit code is reported as failed or error, never as a clean or
\* findings-present result.
InvC15 ==
    \A e \in runlog :
        /\ ExitOf(e) = "exit0" => status_of(e.res) \notin {"failed", "error"}
        /\ (ExitOf(e) = "exit1" /\ e.tool \in {"checkov", "semgrep", "hadolint", "kubescan"})
              => status_of(e.res) \notin {"failed", "error"}
        /\ ExitOf(e) = "exit2" => status_of(e.res) \in {"failed", "error"}

\* the tools whose stdout the wrapper parses as JSON
JsonTools == {"semgrep", "trivy", "checkov", "grype", "kubescan", "syft"}

\* C16: a unit whose process exits with code 0 and prints what cannot be
\* parsed returns completed with an empty payload, the consistency unit
\* included.
InvC16 ==
    \A e \in runlog :
        (e.tool \in JsonTools /\ e.run.proc = "exit0" /\ ~e.run.out.ok)
            => /\ status_of(e.res) = "completed"
               /\ get(e.res, "findings", None) = List(<<>>)

\* C17: whatever the tools did and whichever tools are configured, scan does
\* not raise: it goes through report generation and returns.
InvC17 == ~raised /\ pc # "raised"

-----------------------------------------------------------------------------
(* _generate_summary on its own: C20 *)

MaxCats == 2   \* categories present in a results map

\* values a category of a results map may hold: what its scanner returns,
\* and the {'findings': [...]} maps of test_generate_summary
TestFindings == Dict([findings |-> List(<<Finding, Finding, Finding>>)])

\* a Trivy report with two targets, whose entries carry a canonical
\* severity, a word Trivy uses that is no counter, and no severity at all
TrivyMixed(listed) ==
    Dict([Results |->
            List(<<Dict(("Target" :> Str("a")) @@ (listed :> List(<<Vuln("LOW"), Vuln("UNKNOWN")>>))),
                   Dict([Target |-> Str("b")]),
                   Dict(("Target" :> Str("c")) @@ (listed :> List(<<Dict(<<>>), Vuln("MEDIUM"), Vuln("LOW")>>)))>>)])

SummaryEntries(c) ==
    CASE c = "secrets" ->
            {Dict([gitleaks |-> v]) :
                v \in {List(<<>>), List(<<Finding, Finding>>),
                       Err("Gitleaks not installed", "not_installed")}}
            \cup {TestFindings}
      [] c = "dependencies" ->
            {Dict([trivy |-> v]) :
                v \in TrivyFsPayloads
                      \cup {None, Err("Trivy not installed", "not_installed"),
                            TrivyMixed("Vulnerabilities")}}
      [] c = "iac" ->
            {Dict([trivy |-> t, checkov |-> k]) :
                t \in TrivyConfigPayloads \cup {None, TrivyMixed("Misconfigurations")},
                k \in CheckovPayloads \cup {None}}
      [] c = "sast" ->
            {Dict([semgrep |-> s, spotbugs |-> None]) : s \in SemgrepPayloads}
            \cup {Dict([semgrep |-> None,
                        spotbugs |-> Dict([findings |-> List(<<Finding>>),
                                           status |-> Str("completed")])]),
                  TestFindings}
      [] c = "containers" ->
            {Dict([trivy |-> List(<<p>>), grype |-> List(<<>>)]) : p \in ImagePayloads}
      [] c = "helm" ->
            {Dict([helm_lint |-> List(<<Err("stdout", "issues_found")>>)])}
      [] c = "linting" ->
            {Dict([hadolint |-> List(<<h>>)]) :
                h \in {Err("stdout", "issues_found"),
                       Dict([status |-> Str("completed")])}}
      [] c = "consistency" ->
            {consistency_scan(Run("exit0", Json(p), NoFile)) : p \in SbomPayloads}
            \cup {consistency_scan(Run("absent", NoText, NoFile))}

AllSummaryEntries == UNION {SummaryEntries(c) : c \in SummaryCategories}

\* the results maps examined: at most MaxCats categories present, the empty
\* map among them
ResultMaps ==
    {Dict(f) : f \in UNION {
        {g \in [S -> AllSummaryEntries] : \A c \in S : g[c] \in SummaryEntries(c)} :
            S \in {T \in SUBSET SummaryCategories : Cardinality(T) <= MaxCats}}}

InitSummary ==
    /\ repo_path = Repo
    /\ fs = {}
    /\ build_enabled = FALSE
    /\ enabled = {}
    /\ artifacts = EmptyArtifacts
    /\ pc = "report"
    /\ build_roots = <<>>
    /\ idx = 1
    /\ build_results = EmptyBuildResults
    /\ results = [c \in Categories |-> "absent"]
    /\ unit = 1
    /\ first_inv = AsSets(EmptyArtifacts)
    /\ ndetect = 1
    /\ tools = DefaultTools
    /\ report_file = NoFile
    /\ scan_out \in ResultMaps
    /\ runlog = {}
    /\ raised = FALSE
    /\ summary = None
    /\ sbom = <<>>
    /\ conflicts = <<>>
    /\ NoRepoManager

NextSummary == Report

SpecSummary == InitSummary /\ [][NextSummary]_vars

\* a summary with the eight categories, each with the five counters as
\* non-negative integers
WellFormed(s) ==
    /\ DOMAIN s = SummaryCategories
    /\ \A c \in SummaryCategories :
          /\ DOMAIN s[c] = Severities
          /\ \A k \in Severities : s[c][k] \in Nat

\* C20: for every results map, the empty one and those lacking categories
\* included, _generate_summary returns the eight categories, each with the
\* five counters as non-negative integers, and for the empty map every
\* counter is zero.
InvC20 ==
    pc \in {"done", "raised"} =>
        /\ ~raised
        /\ WellFormed(summary)
        /\ scan_out = Dict(<<>>) =>
              \A c \in SummaryCategories : summary[c] = ZeroCounts

-----------------------------------------------------------------------------
(* The summary's counters: C21, C22, C25, C26, C30 *)

\* C21: _generate_summary never raises on a shape mismatch of its input: for
\* every results map, a None tool slot, an error dict and a list in place of
\* a dict included, it returns a summary.
InvC21 ==
    pc \in {"done", "raised"} => (~raised /\ WellFormed(summary))

\* the number of findings a gitleaks result reports: the length of the list
\* it returned, none when the unit ended with an error dict or did not run
secret_findings(v) == IF v.shape = "list" THEN Len(v.items) ELSE 0

\* C22: the secrets HIGH counter of the summary is the number of findings
\* the secrets scanner reported and the other secrets counters are zero; a
\* unit that ended in timeout, not_installed or error counts for nothing.
InvC22 ==
    (pc = "done" /\ has_key(scan_out, "secrets")) =>
        summary["secrets"] =
            [ZeroCounts EXCEPT
                !["high"] = secret_findings(get(scan_out.d["secrets"], "gitleaks", None))]

\* the Trivy payload of a category of the results map, {} when there is none
trivy_payload(cat) ==
    LET c == get(scan_out, cat, Dict(<<>>))
        t == get(c, "trivy", Dict(<<>>))
    IN  IF t.shape = "dict" THEN t ELSE Dict(<<>>)

\* the entries a Trivy payload lists under a key: <<i, j>> is entry j of
\* target i
Listed(t, key) ==
    LET rs == elems(get(t, "Results", List(<<>>)))
    IN  UNION {{<<i, j>> : j \in 1..Len(rs[i].d[key].items)} :
                  i \in {x \in 1..Len(rs) : has_key(rs[x], key)}}

\* the words of a severity that name a counter, in either case
Canonical ==
    [critical |-> {"CRITICAL", "critical"}, high |-> {"HIGH", "high"},
     medium |-> {"MEDIUM", "medium"}, low |-> {"LOW", "low"},
     info |-> {"INFO", "info"}]

\* the entries of a payload that belong in counter k: those whose severity
\* names k, and for info also those whose severity names no counter
InBucket(t, key, k) ==
    LET rs == elems(get(t, "Results", List(<<>>)))
        sev(p) == get(rs[p[1]].d[key].items[p[2]], "Severity", Str("UNKNOWN")).s
    IN  {p \in Listed(t, key) :
            \/ sev(p) \in Canonical[k]
            \/ k = "info" /\ \A h \in Severities : sev(p) \notin Canonical[h]}

\* the failed checks of the Checkov report of the results map
failed_checks ==
    LET c == get(scan_out, "iac", Dict(<<>>))
        k == get(c, "checkov", None)
    IN  IF k.shape = "dict" /\ has_key(k, "results")
        THEN Len(get(k.d["results"], "failed_checks", List(<<>>)).items)
        ELSE 0

Total(counts) ==
    counts["critical"] + counts["high"] + counts["medium"] + counts["low"]
        + counts["info"]

semgrep_findings ==
    LET s == get(get(scan_out, "sast", Dict(<<>>)), "semgrep", None)
    IN  IF s.shape = "dict" THEN elems(get(s, "results", List(<<>>))) ELSE <<>>

\* those of them whose severity is one of the words given
semgrep_of(words) ==
    {i \in 1..Len(semgrep_findings) :
        get(get(semgrep_findings[i], "extra", Dict(<<>>)), "severity",
            Str("medium")).s \in words}

\* the per-jar records of the SpotBugs slot
spotbugs_records ==
    LET b == get(get(scan_out, "sast", Dict(<<>>)), "spotbugs", None)
    IN  IF b.shape = "dict" THEN elems(get(b, "findings", List(<<>>))) ELSE <<>>

\* C26: for the SAST value SASTScanner.scan returns, every Semgrep finding
\* is counted by its severity, error as HIGH, warning as MEDIUM and any
\* other as INFO; with no SpotBugs run record the MEDIUM counter holds the
\* warnings alone.
InvC26 ==
    (pc = "done" /\ has_key(scan_out, "sast")) =>
        /\ summary["sast"]["high"] = Cardinality(semgrep_of({"ERROR", "error"}))
        /\ summary["sast"]["info"]
              = Len(semgrep_findings)
                  - Cardinality(semgrep_of({"ERROR", "error", "WARNING", "warning"}))
        /\ spotbugs_records = <<>>
              => summary["sast"]["medium"]
                    = Cardinality(semgrep_of({"WARNING", "warning"}))

\* C30: in every summary returned, the counters of containers and of helm
\* are all zero, whatever the container and Helm scans reported.
InvC30 ==
    pc = "done" =>
        /\ summary["containers"] = ZeroCounts
        /\ summary["helm"] = ZeroCounts

\* a summary was returned for a results map in which Trivy reports a
\* critical vulnerability of an image; likewise with a chart helm lint
\* complained about
WitC30 ==
    /\ pc = "done"
    /\ \/ get(scan_out, "containers", None)
            = Dict([trivy |-> List(<<TrivyReport("Vulnerabilities", <<Vuln("CRITICAL")>>)>>),
                    grype |-> List(<<>>)])
       \/ get(scan_out, "helm", None)
            = Dict([helm_lint |-> List(<<Err("stdout", "issues_found")>>)])

-----------------------------------------------------------------------------
(* What the scan hands on and what it reads: C23, C28 *)

\* whether the build stage of the scan ran
BuildRan == build_enabled /\ artifacts.build_files # <<>>

\* C23: after a scan whose build stage ran, the results handed to the report
\* generator hold the build results, per root and per Dockerfile, next to
\* the per-tool results.
InvC23 ==
    (pc = "done" /\ BuildRan) =>
        /\ has_key(scan_out, "build")
        /\ \A c \in Categories : results[c] = "present" => has_key(scan_out, c)

-----------------------------------------------------------------------------
(* RepoManager: clone and cleanup. C24 *)

MaxClones == 2   \* clone calls on one RepoManager

\* a directory is the sequence of its names, a name the sequence of its
\* characters; str is the path as the str the code holds
RECURSIVE flat(_)
flat(names) ==
    IF names = <<>> THEN <<>> ELSE <<"/">> \o Head(names) \o flat(Tail(names))

\* repo_path.startswith(self.temp_dir), on the two strs
startswith(path, prefix) == IsPrefix(flat(prefix), flat(path))

\* a rule that compares whole names: path is temp_dir or lies below it
below(path, prefix) == IsPrefix(prefix, path)

\* the names used: /t/c is the temp_dir, /t/cx a directory next to it whose
\* name begins with the temp_dir's
NameT == <<"t">>
NameC == <<"c">>
NameCX == <<"c", "x">>
NameH == <<"h">>
NameP == <<"p">>
CloneName(k) == <<"r", IF k = 1 THEN "1" ELSE IF k = 2 THEN "2" ELSE "3">>

TempDir == <<NameT, NameC>>

\* clone_dir = tempfile.mkdtemp(dir=self.temp_dir, prefix='repo_')
CloneDirs == {TempDir \o <<CloneName(k)>> : k \in 1..MaxClones}

\* directories that are there besides the clones: the ancestors of temp_dir,
\* a directory next to it and a project in it, a home directory
ForeignDirs == {<<NameT, NameCX>>, <<NameT, NameCX, NameP>>, <<NameH>>, <<NameH, NameP>>}

\* what cleanup may be called with
CleanupArgs == CloneDirs \cup ForeignDirs \cup {TempDir}

\* shutil.rmtree(path): path and everything under it
rmtree(ds, path) == {d \in ds : ~IsPrefix(path, d)}

\* RepoManager(config): temp_dir is made if it is not there
InitRepo ==
    /\ repo_path = Repo
    /\ fs = {}
    /\ build_enabled = FALSE
    /\ enabled = {}
    /\ artifacts = EmptyArtifacts
    /\ pc = "repo"
    /\ build_roots = <<>>
    /\ idx = 1
    /\ build_results = EmptyBuildResults
    /\ results = [c \in Categories |-> "absent"]
    /\ unit = 1
    /\ first_inv = AsSets(EmptyArtifacts)
    /\ ndetect = 0
    /\ tools = DefaultTools
    /\ report_file = NoFile
    /\ scan_out = Dict(<<>>)
    /\ runlog = {}
    /\ raised = FALSE
    /\ summary = None
    /\ sbom = <<>>
    /\ conflicts = <<>>
    /\ temp_dir = TempDir
    /\ cleanup_enabled \in BOOLEAN
    /\ \E there \in SUBSET ForeignDirs :
          /\ \A d \in there :
                Len(d) = 1 \/ SubSeq(d, 1, Len(d) - 1) \in there \cup {<<NameT>>}
          /\ dirs = {<<NameT>>, TempDir} \cup there
    /\ removed = {}

\* RepoManager.clone: a new directory under temp_dir, removed again when
\* cloning fails
Clone ==
    /\ pc = "repo"
    /\ TempDir \in dirs
    /\ \E d \in CloneDirs \ (dirs \cup removed), cloned \in BOOLEAN :
          dirs' = IF cloned THEN dirs \cup {d} ELSE dirs
    /\ UNCHANGED <<temp_dir, cleanup_enabled, removed>>
    /\ UNCHANGED pipevars
    /\ UNCHANGED <<tools, report_file, scan_out, runlog, raised, summary, sbom, conflicts>>

\* what cleanup(path) leaves of the directories ds when rmtree works
cleanup(ds, path, on, temp) ==
    IF ~on THEN ds
    ELSE IF path \in ds /\ startswith(path, temp) THEN rmtree(ds, path)
    ELSE ds

\* RepoManager.cleanup(repo_path); an rmtree that raises removes nothing
\* here, and the exception is swallowed
Cleanup ==
    /\ pc = "repo"
    /\ \E path \in CleanupArgs, works \in BOOLEAN :
          LET after == IF works THEN cleanup(dirs, path, cleanup_enabled, temp_dir)
                       ELSE dirs
          IN  /\ dirs' = after
              /\ removed' = removed \cup (dirs \ after)
    /\ UNCHANGED <<temp_dir, cleanup_enabled>>
    /\ UNCHANGED pipevars
    /\ UNCHANGED <<tools, report_file, scan_out, runlog, raised, summary, sbom, conflicts>>

NextRepo == Clone \/ Cleanup

SpecRepo == InitRepo /\ [][NextRepo]_vars

\* C24: cleanup removes nothing when cleanup is disabled, and when it is
\* enabled everything it has removed, over any sequence of calls, is the
\* temp_dir or lies inside it.
InvC24 ==
    /\ ~cleanup_enabled => removed = {}
    /\ \A d \in removed : below(d, temp_dir)

-----------------------------------------------------------------------------
(* The report file of gitleaks: C27 *)

\* C27: the secrets result of a scan holds only what that scan's own
\* gitleaks run wrote: a run that wrote no report returns no finding,
\* whatever an earlier scan left in /tmp/gitleaks-report.json.
InvC27 ==
    \A e \in runlog :
        (e.tool = "gitleaks" /\ e.run.written = NoFile /\ e.res.shape = "list")
            => e.res = List(<<>>)

-----------------------------------------------------------------------------
(* The inventory the artifact stage reads: C28 *)

\* the images whose build succeeded in this scan, in build order
BuiltImages ==
    LET ok == SelectSeq(build_results.docker, LAMBDA b : b.status = "success")
    IN  [i \in 1..Len(ok) |-> ok[i].image]

\* C28: the artifact stage reads the inventory as the build left it: the
\* images in it are those built with success in this scan, and the
\* containers category has a result exactly when containers are enabled and
\* at least one image build succeeded; with building disabled or no
\* successful image build it has none.
InvC28 ==
    /\ pc \in {"source", "artifact", "report", "done"}
          => artifacts.docker_images = BuiltImages
    /\ pc \in {"report", "done"}
          => (results["containers"] = "present"
                <=> ("containers" \in enabled /\ BuiltImages # <<>>))
    /\ (pc \in {"report", "done"} /\ ~build_enabled)
          => results["containers"] = "absent"

\* a scan is over in which one image build failed and another succeeded,
\* and the containers category has its result
WitC28 ==
    /\ pc = "done"
    /\ \E i \in 1..Len(build_results.docker) : build_results.docker[i].status # "success"
    /\ BuiltImages # <<>>
    /\ results["containers"] = "present"

-----------------------------------------------------------------------------
(* Exclusions and the place of the repository: C29 *)

\* the names of a file's path below the repository root
below_root(f) == SubSeq(parts(f), Len(repo_path) + 1, Len(parts(f)))

\* C29: a Dockerfile, a build descriptor or a jar is left out of the
\* inventory exactly when one of the names of its path below the repository
\* root is in the exclusion set, whatever the names of the root's own path.
InvC29 ==
    ndetect >= 1 =>
        \A f \in fs :
            /\ f.name \in DockerfileNames =>
                  (parts(f) \in Range(artifacts.dockerfiles)
                      <=> ~Has(below_root(f), SourceExclusions))
            /\ f.name \in {"pom.xml"} \cup GradleNames =>
                  ((\E b \in Range(artifacts.build_files) : b.path = parts(f))
                      <=> ~Has(below_root(f), SourceExclusions))
            /\ f.name \in JarNames =>
                  (parts(f) \in Range(artifacts.jar_files)
                      <=> ~Has(below_root(f), JavaExclusions))

====
